---- MODULE Spec2Model ----
(***************************************************************************)
(* A model of the WhatsApp webhook pipeline of tooriassisst:              *)
(*   - the Identity Resolver (WhatsAppAdapter.mjs, index.mjs),             *)
(*   - the transcription poll loop (WhatsAppAdapter.mjs, index.mjs,        *)
(*     unnamed/part_001),                                                  *)
(*   - the S3-backed handler of index.mjs (concurrent invocations),        *)
(*   - the in-memory handler of WhatsAppAdapter.mjs (one invocation at a   *)
(*     time per container).                                                *)
(* Strings the code inspects character by character (phone identifiers,    *)
(* user keys) are sequences of one-character strings; texts the code only  *)
(* compares or copies are TLA+ strings.                                    *)
(***************************************************************************)
EXTENDS Integers, Sequences, FiniteSets, TLC

VARIABLES
  \* ---- Identity Resolver inputs and results
  idDigits,      \* the digit sequence of the phone the inbound events come from
  idFormA,       \* a channel-B (Twilio) form carrying that phone
  idFormB,       \* a second channel-B form: same phone, other formatting
  idMeta,        \* a channel-A (Meta) event carrying that phone
  idKeys,        \* resolver name -> the keys it returned (Unset before it ran)
  \* ---- transcription poll loop
  pollImpl,      \* which poll loop runs
  pollPc,        \* "start" | "loop" | "done"
  pollAttempts,  \* attempts / i of the loop
  pollStatus,    \* jobStatus as last observed
  pollRequests,  \* GetTranscriptionJob requests issued so far
  pollResult,    \* what the loop returned (or threw)
  jobStarts,     \* StartTranscriptionJob requests issued so far
  \* ---- the handler of index.mjs, its deliveries and the history object in S3
  s3hist,        \* the stored history object of the sender (history/<userId>.json)
  req,           \* delivery number -> the state of the invocation that handles it
  nDelivered,    \* deliveries received so far
  \* ---- the handler of WhatsAppAdapter.mjs and the memory of its container
  memory,        \* userId -> the history array memory[userId], if there is one
  backups,       \* the backup entries of memory: [userId, ts, history]
  nRuns,         \* invocations so far; also the clock of the backup keys
  run,           \* what the last invocation did and answered
  \* ---- the reply splitters
  splitText,     \* the reply text given to a splitter
  splitImpl,     \* the splitter that ran ("none" before)
  splitOut,      \* the fragments it returned
  \* ---- the loops that send the fragments of a reply
  sendImpl,      \* which send loop runs
  sendTotal,     \* messages.length
  sendLog,       \* the outcome of the send attempt of each fragment so far
  sendPc,        \* "loop" | "awaiting" | "delay" | "done" | "thrown" ("idle": no loop)
  sendStarted,   \* the indices of the fragments whose request was started, in order
  sendDelays,    \* esperar(...) calls of the loop so far
  \* ---- the web/API branch of the handler and one client session
  webImpl,       \* the handler the client talks to
  webStore,      \* history key -> the history object stored under it
  webSent,       \* the inputs the client has sent so far, all with one sessionId
  webResp,       \* the body of the last response
  \* ---- the history a handler passes to the generation backend
  trimImpl,      \* which handler runs
  trimLog,       \* the stored history of the user
  trimPassed,    \* the history of the last request to the backend
  trimCount,     \* requests handled so far
  \* ---- the earlier adapter (part_000, part_002) and its identity fallback
  legMemory,     \* memory: user key -> history (<<>> when the key is not there)
  legRun,        \* the last request: the sender it carried, the key it used
  legCount,      \* requests handled so far
  \* ---- the classification of a message with media as audio
  audImpl,       \* which handler classifies
  audTypes,      \* the content types of the media descriptors of the message
  audRouted,     \* "transcription" or "text" once classified, "unset" before
  \* ---- the parsing of the body of a request
  detImpl,       \* which handler parses
  detContentType, \* "form" or "json"
  detBody,       \* the body
  detResult      \* what the parsing returned

identVars == <<idDigits, idFormA, idFormB, idMeta, idKeys>>
pollVars == <<pollImpl, pollPc, pollAttempts, pollStatus, pollRequests, pollResult,
              jobStarts>>
indexVars == <<s3hist, req, nDelivered>>
adapterVars == <<memory, backups, nRuns, run>>
splitVars == <<splitText, splitImpl, splitOut>>
sendVars == <<sendImpl, sendTotal, sendLog, sendPc, sendStarted, sendDelays>>
webVars == <<webImpl, webStore, webSent, webResp>>
trimVars == <<trimImpl, trimLog, trimPassed, trimCount>>
legacyVars == <<legMemory, legRun, legCount>>
audioVars == <<audImpl, audTypes, audRouted>>
detectVars == <<detImpl, detContentType, detBody, detResult>>
vars == <<identVars, pollVars, indexVars, adapterVars, splitVars, sendVars,
          webVars, trimVars, legacyVars, audioVars, detectVars>>

(***************************************************************************)
(* Bounds of the model                                                     *)
(***************************************************************************)
MaxDigits == 2

\* status requests the model follows beyond maxAttempts before it stops looking
PollSlack == 2

\* webhook deliveries the provider makes to the handler of index.mjs
MaxDeliveries == 2

\* invocations of the handler of WhatsAppAdapter.mjs
MaxInvocations == 3

\* tokens of a reply text given to a splitter
MaxTextLen == 5

\* invocations of the adapter that all commit a reply
MaxCommits == 5

\* fragments of one reply
MaxFragments == 3

\* requests of one web session
MaxExchanges == 4
MaxRequests == 14
MaxLegacyRequests == 3
MaxMedia == 2
MaxBodyLen == 4

(***************************************************************************)
(* Characters and strings                                                  *)
(***************************************************************************)
DigitChars == {"0", "1", "2", "3", "4", "5", "6", "7", "8", "9"}

IsDigit(c) == c \in DigitChars

\* "whatsapp:" - the channel prefix tag of a Twilio From field
WhatsAppTag == <<"w", "h", "a", "t", "s", "a", "p", "p", ":">>

WaPrefix == <<"w", "a", ":">>
WaMetaPrefix == <<"w", "a", "-", "m", "e", "t", "a", ":">>
WaTwilioPrefix == <<"w", "a", "-", "t", "w", "i", "l", "i", "o", ":">>
Anon == <<"a", "n", "o", "n">>

\* an absent (undefined) or empty field: both are falsy where the code tests them
Absent == <<>>

Unset == "unset"

\* the keys of a resolver that has not run yet
NoKeys == [set |-> FALSE, A |-> <<>>, B |-> <<>>, M |-> <<>>]

StartsWith(s, p) == Len(s) >= Len(p) /\ SubSeq(s, 1, Len(p)) = p

\* s.replace(/^whatsapp:/, "")
StripWhatsAppTag(s) ==
  IF StartsWith(s, WhatsAppTag) THEN SubSeq(s, Len(WhatsAppTag) + 1, Len(s)) ELSE s

\* a plausible slip: only a leading "+" is removed, not every non-digit
NormalizePhoneLeadingPlusOnly(s) ==
  IF Len(s) > 0 /\ s[1] = "+" THEN Tail(s) ELSE s

\* normalizePhone = (s) => (s || "").replace(/\D/g, "")
normalizePhone(s) == SelectSeq(s, IsDigit)

\* /^\d+$/.test(s)
AllDigits(s) == Len(s) > 0 /\ \A i \in 1..Len(s) : IsDigit(s[i])

(***************************************************************************)
(* Inbound phone representations                                           *)
(***************************************************************************)
PhoneDigitChars == {"1", "5"}

DigitSeqs == UNION {[1..n -> PhoneDigitChars] : n \in 1..MaxDigits}

Separators == {<<>>, <<"-">>, <<" ">>}

Styles == [tag : BOOLEAN, plus : BOOLEAN, sep : Separators]

Shapes == {"from", "waid", "both"}

RECURSIVE JoinDigits(_, _)
JoinDigits(d, sep) ==
  IF Len(d) <= 1 THEN d
  ELSE <<Head(d)>> \o sep \o JoinDigits(Tail(d), sep)

\* how a provider or a client writes the phone d
FormatPhone(d, style) ==
  (IF style.tag THEN WhatsAppTag ELSE <<>>)
    \o (IF style.plus THEN <<"+">> ELSE <<>>)
    \o JoinDigits(d, style.sep)

\* the recovered structure of an inbound request, as far as identity goes:
\* From / WaId of a Twilio form, the digits the malformed-key patterns capture,
\* contacts[0].wa_id and messages[0].from of a Meta event
EmptyForm ==
  [From |-> Absent, WaId |-> Absent,
   singleKey |-> FALSE, keyFrom |-> Absent, keyWaId |-> Absent,
   hasValue |-> FALSE, contactWaId |-> Absent, msgFrom |-> Absent]

TwilioForm(d, style, shape) ==
  [EmptyForm EXCEPT
     !.From = IF shape \in {"from", "both"} THEN FormatPhone(d, style) ELSE Absent,
     !.WaId = IF shape = "waid" THEN FormatPhone(d, [style EXCEPT !.tag = FALSE])
              ELSE IF shape = "both" THEN d ELSE Absent]

MetaEvent(d, withContact) ==
  [EmptyForm EXCEPT
     !.hasValue = TRUE,
     !.contactWaId = IF withContact THEN d ELSE Absent,
     !.msgFrom = d]

(***************************************************************************)
(* Identity Resolver of WhatsAppAdapter.mjs                                *)
(***************************************************************************)
NoUser == [found |-> FALSE, phone |-> Absent, userId |-> Anon]

\* extractFromTwilioFormat with the userId taken from From whenever From is there
extractFromTwilioFormatFromFirst(form) ==
  IF form.From = Absent /\ form.WaId = Absent THEN NoUser
  ELSE IF form.From # Absent
    THEN LET phone == StripWhatsAppTag(form.From)
         IN [found |-> TRUE, phone |-> phone,
             userId |-> WaPrefix \o normalizePhone(phone)]
    ELSE LET normalizedPhone == normalizePhone(form.WaId)
         IN [found |-> TRUE, phone |-> <<"+">> \o normalizedPhone,
             userId |-> WaPrefix \o normalizedPhone]

extractFromTwilioFormat(form) ==
  IF form.From = Absent /\ form.WaId = Absent THEN NoUser
  ELSE IF form.From # Absent
    THEN LET phone == StripWhatsAppTag(form.From)
             waid == IF form.WaId # Absent THEN form.WaId ELSE phone
         IN [found |-> TRUE, phone |-> phone,
             userId |-> WaPrefix \o normalizePhone(waid)]
    ELSE LET normalizedPhone == normalizePhone(form.WaId)
         IN [found |-> TRUE, phone |-> <<"+">> \o normalizedPhone,
             userId |-> WaPrefix \o normalizedPhone]

extractFromMalformedKey(form) ==
  IF ~form.singleKey THEN NoUser
  ELSE IF form.keyFrom # Absent \/ form.keyWaId # Absent
    THEN LET normalizedPhone ==
               normalizePhone(IF form.keyFrom # Absent THEN form.keyFrom
                              ELSE form.keyWaId)
         IN [found |-> TRUE, phone |-> <<"+">> \o normalizedPhone,
             userId |-> WaPrefix \o normalizedPhone]
    ELSE NoUser

extractFromMetaWebhook(form) ==
  IF ~form.hasValue THEN NoUser
  ELSE IF form.contactWaId # Absent \/ form.msgFrom # Absent
    THEN LET waid == IF form.contactWaId # Absent THEN form.contactWaId
                     ELSE form.msgFrom
         IN [found |-> TRUE, phone |-> waid,
             userId |-> WaPrefix \o normalizePhone(waid)]
    ELSE NoUser

extractUserInfo(form) ==
  IF extractFromTwilioFormat(form).found THEN extractFromTwilioFormat(form)
  ELSE IF extractFromMalformedKey(form).found THEN extractFromMalformedKey(form)
  ELSE IF extractFromMetaWebhook(form).found THEN extractFromMetaWebhook(form)
  ELSE NoUser

(***************************************************************************)
(* Identity resolution of the handler of index.mjs (lines 287-739)         *)
(***************************************************************************)
\* metaMsg branch: phone = metaMsg.from; userId = `wa:${normalizePhone(phone)}`
IndexMetaUser(form) ==
  [found |-> TRUE, phone |-> form.msgFrom,
   userId |-> WaPrefix \o normalizePhone(form.msgFrom)]

\* twilioData branch
IndexTwilioUser(form) ==
  LET phone == IF form.WaId # Absent THEN form.WaId
               ELSE StripWhatsAppTag(form.From)
      normalizedPhone == normalizePhone(phone)
  IN [found |-> TRUE, phone |-> phone,
      userId |-> IF normalizedPhone # <<>> THEN WaPrefix \o normalizedPhone
                 ELSE Anon]

(***************************************************************************)
(* Identity resolution of the second handler of index.mjs (lines 872-1136) *)
(***************************************************************************)
LegacyMetaUser(form) ==
  [found |-> TRUE, phone |-> form.msgFrom,
   userId |-> WaMetaPrefix \o form.msgFrom]

LegacyTwilioUser(form) ==
  LET phone == StripWhatsAppTag(form.From)
      waid == IF AllDigits(form.WaId) THEN form.WaId ELSE normalizePhone(phone)
  IN [found |-> TRUE, phone |-> phone, userId |-> WaTwilioPrefix \o waid]

(***************************************************************************)
(* Specification of the Identity Resolver: the inputs are drawn in Init,   *)
(* each action applies one implementation to them.                         *)
(***************************************************************************)
Resolvers == {"adapter", "index", "legacy"}

InitIdent ==
  /\ idDigits \in DigitSeqs
  /\ \E sa \in Styles, sb \in Styles, ha \in Shapes, hb \in Shapes :
       /\ idFormA = TwilioForm(idDigits, sa, ha)
       /\ idFormB = TwilioForm(idDigits, sb, hb)
  /\ \E c \in BOOLEAN : idMeta = MetaEvent(idDigits, c)
  /\ idKeys = [r \in Resolvers |-> NoKeys]

\* a Twilio form with a From field and, possibly, a WaId field of other digits
InitIdentBothFields ==
  /\ idDigits \in DigitSeqs
  /\ \E s \in Styles, waid \in DigitSeqs \cup {Absent} :
       /\ idFormA = [TwilioForm(idDigits, s, "from") EXCEPT !.WaId = waid]
       /\ idFormB = idFormA
  /\ idMeta = MetaEvent(idDigits, TRUE)
  /\ idKeys = [r \in Resolvers |-> NoKeys]

ResolveAdapter ==
  /\ ~idKeys["adapter"].set
  /\ idKeys' = [idKeys EXCEPT !["adapter"] =
                  [set |-> TRUE, A |-> extractUserInfo(idFormA).userId,
                   B |-> extractUserInfo(idFormB).userId,
                   M |-> extractUserInfo(idMeta).userId]]
  /\ UNCHANGED <<idDigits, idFormA, idFormB, idMeta>>

ResolveIndex ==
  /\ ~idKeys["index"].set
  /\ idKeys' = [idKeys EXCEPT !["index"] =
                  [set |-> TRUE, A |-> IndexTwilioUser(idFormA).userId,
                   B |-> IndexTwilioUser(idFormB).userId,
                   M |-> IndexMetaUser(idMeta).userId]]
  /\ UNCHANGED <<idDigits, idFormA, idFormB, idMeta>>

ResolveLegacy ==
  /\ ~idKeys["legacy"].set
  /\ idKeys' = [idKeys EXCEPT !["legacy"] =
                  [set |-> TRUE, A |-> LegacyTwilioUser(idFormA).userId,
                   B |-> LegacyTwilioUser(idFormB).userId,
                   M |-> LegacyMetaUser(idMeta).userId]]
  /\ UNCHANGED <<idDigits, idFormA, idFormB, idMeta>>

(***************************************************************************)
(* The transcription poll loop                                             *)
(***************************************************************************)
\* waitForTranscriptionCompletion(jobName, maxAttempts = 30); the same number is
\* the loop bound of index.mjs (maxAttempts) and of part_001 (i < 30)
maxAttempts == 30

PollImpls == {"adapter", "index", "part001"}

\* what one GetTranscriptionJob request, and the transcript download that follows
\* a COMPLETED status, can come to
PollResponses ==
  {"QUEUED", "IN_PROGRESS", "FAILED", "REQUEST_ERROR",
   "COMPLETED_TEXT", "COMPLETED_EMPTY", "COMPLETED_NO_URI",
   "COMPLETED_NOT_OK", "COMPLETED_FETCH_THROW"}

\* TranscriptionJobStatus of an answered request
StatusOf(resp) ==
  IF resp \in {"QUEUED", "IN_PROGRESS", "FAILED"} THEN resp ELSE "COMPLETED"

\* the values a poll loop returns: a transcript, '', null, undefined, or a throw
PollResults == {"text", "empty", "null", "undefined", "throw"}

\* a loop that forgets the attempt ceiling
LoopContinuesWithoutCeiling(status, attempts) == status = "IN_PROGRESS"

\* while (jobStatus === 'IN_PROGRESS' && attempts < maxAttempts)
LoopContinues(status, attempts) ==
  status = "IN_PROGRESS" /\ attempts < maxAttempts

\* one iteration of waitForTranscriptionCompletion (WhatsAppAdapter.mjs) or of the
\* inline loop of transcribeAudio (index.mjs), and the loop test that follows it:
\* [pc, status, result]
WhileIteration(impl, resp, attempts) ==
  IF resp = "REQUEST_ERROR"
    THEN [pc |-> "done", status |-> "IN_PROGRESS", result |-> "throw"]
  ELSE IF resp \in {"COMPLETED_TEXT"}
    THEN [pc |-> "done", status |-> "COMPLETED", result |-> "text"]
  ELSE IF resp \in {"COMPLETED_EMPTY"}
    THEN [pc |-> "done", status |-> "COMPLETED", result |-> "empty"]
  ELSE IF resp \in {"COMPLETED_NO_URI", "COMPLETED_NOT_OK", "COMPLETED_FETCH_THROW"}
    \* fetch(undefined), or .json() of an error page, or the download itself, throws
    THEN [pc |-> "done", status |-> "COMPLETED", result |-> "throw"]
  ELSE IF resp = "FAILED"
    THEN [pc |-> "done", status |-> "FAILED", result |-> "null"]
  ELSE IF LoopContinues(StatusOf(resp), attempts + 1)
    THEN [pc |-> "loop", status |-> StatusOf(resp), result |-> Unset]
  ELSE IF impl = "adapter"
    \* if (jobStatus === 'IN_PROGRESS') return null;  return null;
    THEN [pc |-> "done", status |-> StatusOf(resp), result |-> "null"]
  \* index.mjs: if (attempts >= maxAttempts) return null;  else falls off the try
  ELSE IF attempts + 1 >= maxAttempts
    THEN [pc |-> "done", status |-> StatusOf(resp), result |-> "null"]
  ELSE [pc |-> "done", status |-> StatusOf(resp), result |-> "undefined"]

\* one iteration of getTranscriptionResult (part_001): for (let i = 0; i < 30; i++)
\* with the request, the download and the FAILED throw all inside one try whose
\* catch rethrows only when i === 29
ForIteration(resp, i, last) ==
  IF resp \in {"COMPLETED_NO_URI", "COMPLETED_NOT_OK", "COMPLETED_EMPTY"}
    THEN [pc |-> "done", status |-> "COMPLETED", result |-> "empty"]
  ELSE IF resp = "COMPLETED_TEXT"
    THEN [pc |-> "done", status |-> "COMPLETED", result |-> "text"]
  ELSE IF resp \in {"REQUEST_ERROR", "COMPLETED_FETCH_THROW", "FAILED"}
    THEN LET seen == IF resp = "REQUEST_ERROR" THEN last ELSE StatusOf(resp)
         IN IF i = maxAttempts - 1
              THEN [pc |-> "done", status |-> seen, result |-> "throw"]
              ELSE [pc |-> "loop", status |-> seen, result |-> Unset]
  ELSE IF i + 1 < maxAttempts
    THEN [pc |-> "loop", status |-> StatusOf(resp), result |-> Unset]
  \* throw new Error('Transcription timeout')
  ELSE [pc |-> "done", status |-> StatusOf(resp), result |-> "throw"]

\* the poll loop of a job that has been started
InitPoll ==
  /\ pollImpl \in PollImpls
  /\ pollPc = "loop"
  /\ pollAttempts = 0
  /\ pollStatus = "IN_PROGRESS"
  /\ pollRequests = 0
  /\ pollResult = Unset
  /\ jobStarts = 1

\* one pass of the loop body: the wait, the status request, what follows it
PollIteration(resp) ==
  /\ pollPc = "loop"
  /\ pollRequests < maxAttempts + PollSlack
  /\ LET nxt == IF pollImpl = "part001" THEN ForIteration(resp, pollAttempts, pollStatus)
                ELSE WhileIteration(pollImpl, resp, pollAttempts)
     IN /\ pollPc' = nxt.pc
        /\ pollStatus' = nxt.status
        /\ pollResult' = nxt.result
  /\ pollAttempts' = pollAttempts + 1
  /\ pollRequests' = pollRequests + 1
  /\ UNCHANGED <<pollImpl, jobStarts>>

\* how transcribe.send(new StartTranscriptionJobCommand(...)) settles
StartOutcomes == {"ok", "throws"}

\* transcribeAudio entered for one audio file: no job yet, the loop not entered
InitTranscribe ==
  /\ pollImpl \in PollImpls
  /\ pollPc = "start"
  /\ pollAttempts = 0
  /\ pollStatus = "IN_PROGRESS"
  /\ pollRequests = 0
  /\ pollResult = Unset
  /\ jobStarts = 0

\* the start request of transcribeAudio issued again after it threw
startTranscriptionRetrying(out) ==
  /\ pollPc = "start"
  /\ jobStarts' = jobStarts + 1
  /\ IF out = "ok"
       THEN pollPc' = "loop" /\ pollResult' = pollResult
       ELSE pollPc' = "start" /\ pollResult' = pollResult
  /\ UNCHANGED <<pollImpl, pollAttempts, pollStatus, pollRequests>>

\* transcribeAudio up to its poll loop (WhatsAppAdapter.mjs 364-395, index.mjs
\* 209-232, part_001 startTranscription called at 496): one await of the start
\* request; when it throws, the catch of transcribeAudio returns null
startTranscription(out) ==
  /\ pollPc = "start"
  /\ jobStarts' = jobStarts + 1
  /\ IF out = "ok"
       THEN pollPc' = "loop" /\ pollResult' = pollResult
       ELSE pollPc' = "done" /\ pollResult' = "null"
  /\ UNCHANGED <<pollImpl, pollAttempts, pollStatus, pollRequests>>


(***************************************************************************)
(* The handler of index.mjs (lines 287-739): every delivery is one Lambda  *)
(* invocation; invocations share nothing but the history object in S3.     *)
(* All deliveries of this part come from one sender, so one history object *)
(* is at stake.  Texts are written without accents.                        *)
(***************************************************************************)
\* const MAX_TURNS = parseInt(process.env.MAX_TURNS || "12", 10)
MAX_TURNS == 12

\* history.slice(-10)
RecentWindow == 10

NoId == "none"
NoMedia == "none"
UserText == "hay olor a gas"
TranscriptText == "se corto la luz"
AssistantText == "respuesta del asistente"
Hola == "hola"
MensajeVacio == "mensaje vacio"
AudioNotUnderstood ==
  "He recibido tu mensaje de audio pero no pude entender lo que dijiste"
AyudaUrgente == "necesito ayuda urgente pero no puedo escribir bien, ayudame"
SigoGas == "sigo teniendo el problema de gas que mencione antes"
SigoEnchufe == "sigo con el problema del enchufe de la heladera que te comente"
SigoAgua == "sigo con el problema de agua que te mencione"
AyudaContando == "necesito ayuda con el problema que te estaba contando"
AyudaNoSe == "necesito ayuda pero no se como explicar mi problema"

\* the words the empty-message handler looks for (String.includes) in each text
WordsIn(text) ==
  CASE text = UserText -> {"gas"}
    [] text = SigoGas -> {"gas"}
    [] text = SigoEnchufe -> {"enchufe", "heladera"}
    [] text = SigoAgua -> {"agua"}
    [] OTHER -> {}

LastN(s, n) == IF Len(s) <= n THEN s ELSE SubSeq(s, Len(s) - n + 1, Len(s))

IsConversationTurn(m) == m.role \in {"user", "assistant"}

\* messages.filter(user or assistant).slice(-MAX_TURNS * 2)
trimHistory(messages) == LastN(SelectSeq(messages, IsConversationTurn), MAX_TURNS * 2)

UserTurn(text, id) == [role |-> "user", text |-> text, messageId |-> id]

AssistantTurn(text) == [role |-> "assistant", text |-> text, messageId |-> NoId]

\* the check of the Meta branch without its if (messageId): an absent id equals
\* the absent id of a stored turn
IsDuplicateMetaWithoutIdGuard(history, inputText, messageId) ==
  LET recentMessages == LastN(history, RecentWindow)
  IN \E i \in DOMAIN recentMessages :
       /\ recentMessages[i].role = "user"
       /\ recentMessages[i].text = inputText
       /\ recentMessages[i].messageId = messageId

\* the Meta branch: a recent user turn with the same text AND the same id
IsDuplicateMeta(history, inputText, messageId) ==
  /\ messageId # NoId
  /\ LET recentMessages == LastN(history, RecentWindow)
     IN \E i \in DOMAIN recentMessages :
          /\ recentMessages[i].role = "user"
          /\ recentMessages[i].text = inputText
          /\ recentMessages[i].messageId = messageId

\* the Twilio branch: a recent user turn with the same MessageSid
IsDuplicateTwilio(history, messageId) ==
  /\ messageId # NoId
  /\ LET recentMessages == LastN(history, RecentWindow)
     IN \E i \in DOMAIN recentMessages :
          /\ recentMessages[i].role = "user"
          /\ recentMessages[i].messageId = messageId

\* isAudioFile(contentType): the subtype is one of the six the code lists
isAudioFile(mime) == mime \in {"ogg", "mpeg", "mp4", "wav", "webm", "aac"}

\* what transcribeAudio of index.mjs returns: its try covers the job start and the
\* poll loop, and its catch returns null
TranscribeOutcomes == {"start_error"} \cup PollResults

transcribeAudio(outcome) ==
  IF outcome \in {"start_error", "throw"} THEN "null" ELSE outcome

\* what the media stage can meet for an event
MediaOutcomes(ev) ==
  IF ev.media = NoMedia THEN {"none"} ELSE {"download_fail"} \cup TranscribeOutcomes

\* the media stage of both branches: [inputText, nMedia, audioFailed]
MediaStage(ev, out) ==
  IF ev.media = NoMedia
    THEN [inputText |-> ev.text, nMedia |-> 0, audioFailed |-> FALSE]
  ELSE IF out = "download_fail"
    \* the throw is caught by the branch: } catch (e) { console.warn(...) }
    THEN [inputText |-> ev.text, nMedia |-> 0, audioFailed |-> isAudioFile(ev.media)]
  ELSE IF ~isAudioFile(ev.media)
    THEN [inputText |-> ev.text, nMedia |-> 1, audioFailed |-> FALSE]
  ELSE IF transcribeAudio(out) = "text"
    THEN [inputText |-> TranscriptText, nMedia |-> 1, audioFailed |-> FALSE]
  ELSE [inputText |-> AudioNotUnderstood, nMedia |-> 1, audioFailed |-> TRUE]

\* "Handle empty messages more intelligently" (lines 559-616)
EmptyMessageText(inputText, history, nMedia) ==
  IF inputText # "" /\ inputText # MensajeVacio THEN inputText
  ELSE
    LET recentMessages == LastN(history, RecentWindow)
        users == {i \in DOMAIN recentMessages : recentMessages[i].role = "user"}
        nEmpty == Cardinality({i \in users : recentMessages[i].text \in {MensajeVacio, ""}})
        has(words) == \E i \in users : WordsIn(recentMessages[i].text) \cap words # {}
    IN IF nEmpty >= 3 THEN AyudaUrgente
       ELSE IF nEmpty >= 2 /\ has({"gas"}) THEN SigoGas
       ELSE IF nEmpty >= 2 /\ has({"enchufe", "electricidad", "heladera"}) THEN SigoEnchufe
       ELSE IF nEmpty >= 2 /\ has({"agua", "canilla", "perdida"}) THEN SigoAgua
       ELSE IF nEmpty >= 2 /\ has({"rivadavia", "sol", "inqui"}) THEN AyudaContando
       ELSE IF nEmpty >= 2 THEN AyudaNoSe
       ELSE IF nMedia = 0 /\ history = <<>> THEN Hola
       ELSE IF nMedia = 0 THEN MensajeVacio
       ELSE inputText

\* const updatedMessages = [...safeHistory, ...(userMessage ? [userMessage] : [])]
UpdatedMessages(history, inputText, messageId) ==
  IF inputText = "" THEN trimHistory(history)
  ELSE Append(trimHistory(history), UserTurn(inputText, messageId))

\* the webhook events delivered to the handler: Meta JSON events, Twilio inbound
\* forms, and the Twilio delivery-status callback (a form with MessageStatus)
MetaIds == {"wamid.1"}

TwilioIds == {"SM1"}

\* a text message carries no media and a voice note carries no text
Contents ==
  {[text |-> "", media |-> NoMedia], [text |-> UserText, media |-> NoMedia],
   [text |-> "", media |-> "ogg"]}

Inbound(kind, id, c, smsStatus) ==
  [kind |-> kind, id |-> id, text |-> c.text, media |-> c.media,
   smsStatus |-> smsStatus, messageStatus |-> ""]

InboundEvents ==
  {Inbound("meta", id, c, "") : id \in MetaIds, c \in Contents}
  \cup {Inbound("twilio", id, c, "received") : id \in TwilioIds, c \in Contents}

\* the inbound events of a provider that supplies no message id
IdlessEvents == {[ev EXCEPT !.id = NoId] : ev \in InboundEvents}

StatusCallbacks ==
  [kind : {"twilio"}, id : TwilioIds, text : {""}, media : {NoMedia},
   smsStatus : {"delivered"}, messageStatus : {"delivered"}]

IndexEvents == InboundEvents \cup StatusCallbacks

\* the events of a sender who writes two text messages in a row
RaceEvents ==
  IndexEvents
    \cup {Inbound("twilio", "SM2", [text |-> UserText, media |-> NoMedia], "received")}

NoEvent ==
  [kind |-> "none", id |-> NoId, text |-> "", media |-> NoMedia,
   smsStatus |-> "", messageStatus |-> ""]

\* const isInbound = (smsStatus === "received") || !!body || numMedia > 0;
\* if ((from || waid) && isInbound && !messageStatus) twilioData = {...}
HasTwilioData(ev) ==
  /\ ev.kind = "twilio"
  /\ (ev.smsStatus = "received" \/ ev.text # "" \/ ev.media # NoMedia)
  /\ ev.messageStatus = ""

Deliveries == 1..MaxDeliveries

NoReq ==
  [pc |-> "idle", ev |-> NoEvent, messages |-> <<>>, inputText |-> "",
   status |-> 0, cause |-> "none", redelivery |-> FALSE, audioFailed |-> FALSE,
   invoked |-> FALSE, sent |-> FALSE, saved |-> FALSE, loadFailed |-> FALSE,
   steps |-> <<>>]

InitIndex ==
  /\ s3hist = <<>>
  /\ req = [d \in Deliveries |-> NoReq]
  /\ nDelivered = 0

\* steps is the list of what the invocation has done so far, in the order of the
\* statements: "dedup", "append_user", "backend", "backend_ok", "commit",
\* "dispatch"

\* return { statusCode, ... }: the invocation is over, its locals are gone
Respond(r, status, cause) ==
  [r EXCEPT !.pc = "done", !.status = status, !.cause = cause,
            !.messages = <<>>, !.inputText = "", !.audioFailed = FALSE]

\* the same event was handled to the end before, and a user turn with its id is
\* among the recent turns that this invocation loaded
IsRedelivery(d, ev, history) ==
  /\ \E d0 \in 1..(d - 1) :
       /\ req[d0].ev = ev
       /\ req[d0].pc = "done" /\ req[d0].cause = "ok"
  /\ IsDuplicateTwilio(history, ev.id)

\* the duplicate is noticed and logged, and the handler goes on as with a new event
OnDuplicateContinuing(r, loaded) == [loaded EXCEPT !.cause = "duplicate"]

\* if (isDuplicate) return { statusCode: 200, ... DUPLICATE_IGNORED }: the
\* invocation ends before the media, the model and the store are touched
OnDuplicate(r, loaded) == Respond(r, 200, "duplicate")

\* the invocation from its start to the request it is about to make to the model:
\* parse, identity, loadHistory, duplicate check, media, empty-message handling
Receive(d, ev, loadOk, mediaOut) ==
  /\ d = nDelivered + 1
  /\ d \in Deliveries
  /\ nDelivered' = d
  /\ UNCHANGED s3hist
  /\ LET r0 == [NoReq EXCEPT !.ev = ev]
     IN IF ev.kind = "twilio" /\ ~HasTwilioData(ev)
          \* neither metaMsg nor twilioData: the web branch runs JSON.parse on the
          \* form body, which throws into the outer catch
          THEN req' = [req EXCEPT ![d] = Respond(r0, 500, "status_callback")]
        ELSE
          LET \* loadHistory returns [] on any read error
              history == IF loadOk THEN s3hist ELSE <<>>
              isDuplicate == IF ev.kind = "meta"
                               THEN IsDuplicateMeta(history, ev.text, ev.id)
                               ELSE IsDuplicateTwilio(history, ev.id)
              r1 == [r0 EXCEPT !.redelivery = loadOk /\ IsRedelivery(d, ev, history),
                               !.loadFailed = ~loadOk,
                               !.steps = <<"dedup">>]
              m == MediaStage(ev, mediaOut)
              inputText == EmptyMessageText(m.inputText, history, m.nMedia)
              loaded == [r1 EXCEPT !.pc = "loaded",
                                   !.steps = <<"dedup", "append_user">>,
                                   !.inputText = inputText,
                                   !.audioFailed = m.audioFailed,
                                   !.messages =
                                      UpdatedMessages(history, inputText, ev.id)]
          IN IF isDuplicate
               THEN req' = [req EXCEPT ![d] = OnDuplicate(r1, loaded)]
               ELSE req' = [req EXCEPT ![d] = loaded]

\* await bedrock.send(command): a throw goes to the outer catch
Invoke(d, backendOk) ==
  /\ req[d].pc = "loaded"
  /\ UNCHANGED <<s3hist, nDelivered>>
  /\ LET r == [req[d] EXCEPT !.invoked = TRUE, !.steps = Append(@, "backend")]
     IN IF backendOk
          THEN req' = [req EXCEPT ![d] =
                         [r EXCEPT !.pc = "invoked",
                                   !.steps = Append(@, "backend_ok"),
                                   !.messages = Append(r.messages, AssistantTurn(AssistantText))]]
          ELSE req' = [req EXCEPT ![d] = Respond(r, 500, "backend_error")]

SendOutcomes == {"ok", "rejected", "throws"}

\* saveHistory reading the stored object again and appending the turns of the
\* request to it
SaveAndSendMerging(d, saveOk, sendOut) ==
  /\ req[d].pc = "invoked"
  /\ s3hist' = IF saveOk
                 THEN s3hist \o SubSeq(req[d].messages, Len(req[d].messages) - 1,
                                       Len(req[d].messages))
                 ELSE s3hist
  /\ UNCHANGED nDelivered
  /\ LET r == [req[d] EXCEPT !.saved = saveOk,
                              !.steps = @ \o (IF saveOk THEN <<"commit">> ELSE <<>>)
                                          \o (IF sendOut = "ok" THEN <<"dispatch">>
                                              ELSE <<>>)]
     IN req' = [req EXCEPT ![d] =
          IF sendOut = "ok" THEN Respond([r EXCEPT !.sent = TRUE], 200, "ok")
          ELSE IF sendOut = "rejected" THEN Respond(r, 200, "send_failure")
          ELSE Respond(r, 500, "send_failure")]

\* try { await saveHistory(userId, newHistory) } catch (e) { console.error(...) }
\* then the send loop and the return: a rejected send is logged (Twilio) or not
\* looked at (Meta), a fetch that throws goes to the outer catch
SaveAndSend(d, saveOk, sendOut) ==
  /\ req[d].pc = "invoked"
  /\ s3hist' = IF saveOk THEN req[d].messages ELSE s3hist
  /\ UNCHANGED nDelivered
  /\ LET r == [req[d] EXCEPT !.saved = saveOk,
                              !.steps = @ \o (IF saveOk THEN <<"commit">> ELSE <<>>)
                                          \o (IF sendOut = "ok" THEN <<"dispatch">>
                                              ELSE <<>>)]
     IN req' = [req EXCEPT ![d] =
          IF sendOut = "ok" THEN Respond([r EXCEPT !.sent = TRUE], 200, "ok")
          ELSE IF sendOut = "rejected" THEN Respond(r, 200, "send_failure")
          ELSE Respond(r, 500, "send_failure")]

\* the keys of the JSON body of the response: DUPLICATE_IGNORED (428, 487), OK
\* after the sends (726), and for every exception the outer catch (737):
\* { error: err?.message || "Error", stack: err?.stack }
ResponseBody(status, cause) ==
  IF status = 500 THEN {"error", "stack"} ELSE {"status"}

\* no invocation is between its start and its return
NoneInProgress == \A d \in Deliveries : req[d].pc \in {"idle", "done"}

IdleIndex ==
  /\ s3hist = <<>> /\ req = [d \in Deliveries |-> NoReq] /\ nDelivered = 0

(***************************************************************************)
(* The handler of WhatsAppAdapter.mjs (lines 790-992).  Its state is the   *)
(* module-level object memory, which holds the histories (key userId) and  *)
(* their backups (key backup_<userId>_<time>); a container runs one        *)
(* invocation at a time and loses memory when it is recycled.              *)
(***************************************************************************)
\* userBackups.slice(3).forEach(oldBackup => delete memory[oldBackup])
MaxBackups == 3

AdapterPhone == <<"1", "5">>

AdapterUsers == {WaPrefix \o AdapterPhone, Anon}

\* From=whatsapp:+<digits>
TaggedPlus == [tag |-> TRUE, plus |-> TRUE, sep |-> <<>>]

\* the requests the adapter receives: a Twilio form (Body, MessageSid, media), a
\* Meta JSON event (text.body, id), and a body nothing can be recovered from
AdapterEvents ==
  {[kind |-> "form", form |-> TwilioForm(AdapterPhone, TaggedPlus, "from"),
    text |-> c.text, id |-> sid, media |-> c.media] :
      c \in Contents, sid \in TwilioIds}
  \cup {[kind |-> "json", form |-> MetaEvent(AdapterPhone, TRUE),
         text |-> UserText, id |-> i, media |-> NoMedia] : i \in MetaIds}
  \cup {[kind |-> "garbled", form |-> EmptyForm, text |-> "", id |-> NoId,
         media |-> NoMedia]}

\* messageId is read from the Meta JSON only; the form branch leaves it null
parseFormData(ev) ==
  [form |-> ev.form, messageId |-> IF ev.kind = "json" THEN ev.id ELSE NoId]

AudioProcessingError ==
  "He recibido tu mensaje de audio pero hubo un error al procesarlo"
TechnicalProblem == "Disculpa, tuve un problema tecnico"
NoTextApology == "Disculpa, no pude procesar tu mensaje correctamente"

AdapterAudioOutcomes ==
  {"download_fail", "upload_fail"} \cup (TranscribeOutcomes \ {"undefined"})

\* processAudioMedia: the transcript, or one of its two apologies
processAudioMedia(out) ==
  IF out \in {"download_fail", "upload_fail"} THEN AudioProcessingError
  ELSE IF transcribeAudio(out) = "text" THEN TranscriptText
  ELSE AudioNotUnderstood

AudioOutcomesOf(ev) ==
  IF ev.media = NoMedia THEN {"none"} ELSE AdapterAudioOutcomes

\* step 4 of the handler: let mensajeUsuario = 'mensaje vacío'; ...
MensajeUsuario(ev, audioOut) ==
  IF ev.media # NoMedia /\ isAudioFile(ev.media) THEN processAudioMedia(audioOut)
  ELSE IF ev.text # "" THEN ev.text
  ELSE MensajeVacio

NotStored == [present |-> FALSE, turns |-> <<>>]

Stored(turns) == [present |-> TRUE, turns |-> turns]

BackupsOf(bk, userId) == {b \in bk : b.userId = userId}

\* the backup with the greatest key of a user: sort().reverse()[0]
LatestBackup(bk, userId) ==
  CHOOSE b \in BackupsOf(bk, userId) : \A c \in BackupsOf(bk, userId) : c.ts <= b.ts

restoreConversation(bk, userId) ==
  IF BackupsOf(bk, userId) # {} THEN LatestBackup(bk, userId).history ELSE <<>>

\* the array the handler works on, whether it is the one memory[userId] holds,
\* and the backups: restoreConversation returns latestBackup.history itself, so
\* after memory[userId] = restored the newest backup shares its array with the
\* live history
getConversationHistory(mem, bk, userId) ==
  IF mem[userId].present
    THEN [turns |-> mem[userId].turns, inMemory |-> TRUE, backups |-> bk]
  ELSE IF restoreConversation(bk, userId) # <<>>
    THEN [turns |-> restoreConversation(bk, userId), inMemory |-> TRUE,
          backups |-> {IF b = LatestBackup(bk, userId)
                         THEN [b EXCEPT !.shared = TRUE] ELSE b : b \in bk}]
  ELSE [turns |-> <<>>, inMemory |-> FALSE, backups |-> bk]

\* history.push(...) on the live array of a user: a backup that shares the array
\* sees the new turns
HistoryPush(bk, userId, turns) ==
  {IF b.userId = userId /\ b.shared THEN [b EXCEPT !.history = turns] ELSE b :
     b \in bk}

\* backupConversation storing the array it is given instead of a copy of it
backupConversationByReference(bk, userId, history, now) ==
  LET all == {b \in bk : ~(b.userId = userId /\ b.ts = now)}
               \cup {[userId |-> userId, ts |-> now, history |-> history,
                      shared |-> TRUE]}
      mine == BackupsOf(all, userId)
      kept == {b \in mine : Cardinality({c \in mine : c.ts > b.ts}) < MaxBackups}
  IN (all \ mine) \cup kept

\* backupConversation without .reverse(): the MaxBackups oldest backups stay
backupConversationKeepingOldest(bk, userId, history, now) ==
  LET all == {b \in bk : ~(b.userId = userId /\ b.ts = now)}
               \cup {[userId |-> userId, ts |-> now, history |-> history,
                      shared |-> FALSE]}
      mine == BackupsOf(all, userId)
      kept == {b \in mine : Cardinality({c \in mine : c.ts < b.ts}) < MaxBackups}
  IN (all \ mine) \cup kept

\* a deep copy (JSON.parse(JSON.stringify(history)), an array of its own) under
\* the key of the current time, then only the MaxBackups newest backups of the
\* user stay
backupConversation(bk, userId, history, now) ==
  LET all == {b \in bk : ~(b.userId = userId /\ b.ts = now)}
               \cup {[userId |-> userId, ts |-> now, history |-> history,
                      shared |-> FALSE]}
      mine == BackupsOf(all, userId)
      kept == {b \in mine : Cardinality({c \in mine : c.ts > b.ts}) < MaxBackups}
  IN (all \ mine) \cup kept

NoRun ==
  [ev |-> [kind |-> "none", form |-> EmptyForm, text |-> "", id |-> NoId,
           media |-> NoMedia],
   userId |-> Anon, mensajeUsuario |-> "", backendFailed |-> FALSE,
   raised |-> FALSE, status |-> 0, sent |-> <<>>, steps |-> <<>>]

InitAdapter ==
  /\ memory = [u \in AdapterUsers |-> NotStored]
  /\ backups = {}
  /\ nRuns = 0
  /\ run = NoRun

BackendOutcomes == {"reply", "no_text", "not_ok", "invalid", "error", "throws"}

\* the catch block of the handler: its first statement reads phone, and later
\* form, which are consts of the try block and not in scope here, so the
\* evaluation throws a ReferenceError out of the handler
CatchBlock(r) == [r EXCEPT !.backendFailed = TRUE, !.raised = TRUE, !.status = 0]

\* one invocation of the handler, from the parse to the return
HandleAdapter(ev, audioOut, backendOut, sendOk) ==
  /\ nRuns' = nRuns + 1
  /\ LET p == parseFormData(ev)
         u == extractUserInfo(p.form)
         mensajeUsuario == MensajeUsuario(ev, audioOut)
         g == getConversationHistory(memory, backups, u.userId)
         withUser == Append(g.turns, UserTurn(mensajeUsuario, p.messageId))
         \* history.push(userMessage) on the array memory[userId] refers to
         pushed == IF g.inMemory THEN [memory EXCEPT ![u.userId] = Stored(withUser)]
                   ELSE memory
         r == [NoRun EXCEPT !.ev = ev, !.userId = u.userId,
                            !.mensajeUsuario = mensajeUsuario,
                            !.steps = <<"append_user", "backend">>]
         deliver(texts) == IF u.phone # Absent /\ sendOk THEN texts ELSE <<>>
     IN IF backendOut = "reply"
          THEN LET history == Append(withUser, AssistantTurn(AssistantText))
               IN /\ memory' = [memory EXCEPT ![u.userId] = Stored(history)]
                  /\ backups' = backupConversation(
                                  HistoryPush(g.backups, u.userId, history),
                                  u.userId, history, nRuns + 1)
                  /\ run' = [r EXCEPT !.status = 200, !.sent = deliver(<<AssistantText>>),
                                       !.steps = @ \o <<"backend_ok", "commit">>
                                                   \o (IF deliver(<<AssistantText>>) # <<>>
                                                         THEN <<"dispatch">> ELSE <<>>)]
        ELSE IF backendOut = "no_text"
          THEN /\ memory' = pushed
               /\ backups' = HistoryPush(g.backups, u.userId, withUser)
               /\ run' = [r EXCEPT !.status = 200, !.sent = deliver(<<NoTextApology>>),
                                    !.steps = Append(@, "backend_ok")]
        ELSE /\ memory' = pushed
             /\ backups' = HistoryPush(g.backups, u.userId, withUser)
             /\ run' = CatchBlock(r)

\* the container is recycled: the module is loaded again, const memory = {}
ColdStart ==
  /\ \E u \in AdapterUsers : memory[u].present
  /\ memory' = [u \in AdapterUsers |-> NotStored]
  /\ backups' = {}
  /\ UNCHANGED <<nRuns, run>>

IdleAdapter ==
  /\ memory = [u \in AdapterUsers |-> NotStored] /\ backups = {}
  /\ nRuns = 0 /\ run = NoRun

(***************************************************************************)
(* The reply splitters: dividirRespuesta (WhatsAppAdapter.mjs and          *)
(* index.mjs, the same code), the one-line dividirRespuesta of the second  *)
(* handler of index.mjs, and splitMessage (unnamed/part_001).  A text is a *)
(* sequence of tokens: a word (a run of characters that are neither white  *)
(* space nor a period, of a known length), a period, a space, a newline.   *)
(***************************************************************************)
\* if (trimmed.length <= 300); if (currentMessage.length + sentence.length <= 300)
FragmentLimit == 300

ShortWord == "a"
LongWord == "W"

\* the length of the long word: two of them do not fit in one fragment
LongWordLen == (FragmentLimit \div 2) + 10

\* a word such that two sentences made of it fill a fragment to the last character
HalfWord == "H"
HalfWordLen == (FragmentLimit \div 2) - 1

Tokens == {ShortWord, LongWord, HalfWord, ".", " ", "\n"}

Texts == UNION {[1..n -> Tokens] : n \in 0..MaxTextLen}

IsSpace(c) == c \in {" ", "\n"}

TokenLen(c) ==
  IF c = LongWord THEN LongWordLen ELSE IF c = HalfWord THEN HalfWordLen ELSE 1

\* String.length
RECURSIVE TextLen(_)
TextLen(t) == IF t = <<>> THEN 0 ELSE TokenLen(Head(t)) + TextLen(Tail(t))

\* String.trim
RECURSIVE TrimStart(_)
TrimStart(t) == IF t # <<>> /\ IsSpace(Head(t)) THEN TrimStart(Tail(t)) ELSE t

RECURSIVE TrimEnd(_)
TrimEnd(t) ==
  IF t # <<>> /\ IsSpace(t[Len(t)]) THEN TrimEnd(SubSeq(t, 1, Len(t) - 1)) ELSE t

Trim(t) == TrimEnd(TrimStart(t))

\* the length of the run of newlines, or of white space, that starts at i
RECURSIVE NewlineRun(_, _)
NewlineRun(t, i) ==
  IF i <= Len(t) /\ t[i] = "\n" THEN 1 + NewlineRun(t, i + 1) ELSE 0

RECURSIVE SpaceRun(_, _)
SpaceRun(t, i) ==
  IF i <= Len(t) /\ IsSpace(t[i]) THEN 1 + SpaceRun(t, i + 1) ELSE 0

\* texto.split(/\n\n+/)
RECURSIVE SplitParagraphs(_, _, _)
SplitParagraphs(t, i, cur) ==
  IF i > Len(t) THEN <<cur>>
  ELSE IF NewlineRun(t, i) >= 2
    THEN <<cur>> \o SplitParagraphs(t, i + NewlineRun(t, i), <<>>)
  ELSE SplitParagraphs(t, i + 1, Append(cur, t[i]))

\* trimmed.split(/(?<=\.)\s+/)
RECURSIVE SplitSentences(_, _, _)
SplitSentences(t, i, cur) ==
  IF i > Len(t) THEN <<cur>>
  ELSE IF i > 1 /\ t[i - 1] = "." /\ IsSpace(t[i])
    THEN <<cur>> \o SplitSentences(t, i + SpaceRun(t, i), <<>>)
  ELSE SplitSentences(t, i + 1, Append(cur, t[i]))

\* text.split('. ')
RECURSIVE SplitDotSpace(_, _, _)
SplitDotSpace(t, i, cur) ==
  IF i > Len(t) THEN <<cur>>
  ELSE IF t[i] = "." /\ i < Len(t) /\ t[i + 1] = " "
    THEN <<cur>> \o SplitDotSpace(t, i + 2, <<>>)
  ELSE SplitDotSpace(t, i + 1, Append(cur, t[i]))

\* texto.split(/\n+|(?<=\.)\s+/)
RECURSIVE SplitLines(_, _, _)
SplitLines(t, i, cur) ==
  IF i > Len(t) THEN <<cur>>
  ELSE IF t[i] = "\n"
    THEN <<cur>> \o SplitLines(t, i + NewlineRun(t, i), <<>>)
  ELSE IF i > 1 /\ t[i - 1] = "." /\ IsSpace(t[i])
    THEN <<cur>> \o SplitLines(t, i + SpaceRun(t, i), <<>>)
  ELSE SplitLines(t, i + 1, Append(cur, t[i]))

\* the sentence loop: pieces are joined with glue while they fit in a fragment
RECURSIVE Pack(_, _, _, _)
Pack(pieces, glue, messages, current) ==
  IF pieces = <<>>
    THEN IF current # <<>> THEN Append(messages, current) ELSE messages
  ELSE IF TextLen(current) + TextLen(Head(pieces)) <= FragmentLimit
    THEN Pack(Tail(pieces), glue, messages,
              (IF current # <<>> THEN current \o glue ELSE current) \o Head(pieces))
  ELSE Pack(Tail(pieces), glue,
            IF current # <<>> THEN Append(messages, current) ELSE messages,
            Head(pieces))

\* the body of for (const paragraph of paragraphs)
ParagraphMessages(paragraph) ==
  LET trimmed == Trim(paragraph)
  IN IF trimmed = <<>> THEN <<>>
     ELSE IF TextLen(trimmed) <= FragmentLimit THEN <<trimmed>>
     ELSE Pack(SplitSentences(trimmed, 1, <<>>), <<" ">>, <<>>, <<>>)

RECURSIVE AllParagraphMessages(_)
AllParagraphMessages(paragraphs) ==
  IF paragraphs = <<>> THEN <<>>
  ELSE ParagraphMessages(Head(paragraphs)) \o AllParagraphMessages(Tail(paragraphs))

dividirRespuesta(texto) ==
  LET messages == AllParagraphMessages(SplitParagraphs(texto, 1, <<>>))
  IN IF messages # <<>> THEN messages ELSE <<Trim(texto)>>

NonEmptyPiece(p) == p # <<>>

RECURSIVE TrimAll(_)
TrimAll(pieces) ==
  IF pieces = <<>> THEN <<>> ELSE <<Trim(Head(pieces))>> \o TrimAll(Tail(pieces))

\* texto.split(...).map(p => p.trim()).filter(p => p.length > 0)
dividirRespuestaLegacy(texto) ==
  SelectSeq(TrimAll(SplitLines(texto, 1, <<>>)), NonEmptyPiece)

splitMessage(text) ==
  IF TextLen(text) <= FragmentLimit THEN <<text>>
  ELSE Pack(SplitDotSpace(text, 1, <<>>), <<".", " ">>, <<>>, <<>>)

Splitters == {"dividirRespuesta", "dividirRespuestaLegacy", "splitMessage"}

InitSplit ==
  /\ splitText \in Texts
  /\ splitImpl = "none"
  /\ splitOut = <<>>

RunDividirRespuesta ==
  /\ splitImpl = "none"
  /\ splitImpl' = "dividirRespuesta"
  /\ splitOut' = dividirRespuesta(splitText)
  /\ UNCHANGED splitText

RunDividirRespuestaLegacy ==
  /\ splitImpl = "none"
  /\ splitImpl' = "dividirRespuestaLegacy"
  /\ splitOut' = dividirRespuestaLegacy(splitText)
  /\ UNCHANGED splitText

RunSplitMessage ==
  /\ splitImpl = "none"
  /\ splitImpl' = "splitMessage"
  /\ splitOut' = splitMessage(splitText)
  /\ UNCHANGED splitText

IdleSplit == splitText = <<>> /\ splitImpl = "none" /\ splitOut = <<>>

(***************************************************************************)
(* The loops that send the fragments of a reply to the provider.           *)
(***************************************************************************)
\* sendMessagesToWhatsApp of WhatsAppAdapter.mjs, the Twilio and the Meta loop of
\* the handler of index.mjs, sendMessages of the earlier adapter
SendLoops == {"sendMessagesToWhatsApp", "indexTwilio", "indexMeta", "sendMessages"}

\* what the request of one fragment does: an OK response, a response that is not
\* OK, a fetch that rejects (network error)
FragmentOutcomes == {"ok", "not_ok", "throws"}

\* sendWhatsAppMessage and sendTwilioMessage of WhatsAppAdapter.mjs wrap the fetch
\* in try/catch and return false; the other loops await the fetch bare
CatchesThrow(impl) == impl = "sendMessagesToWhatsApp"

\* the loops of index.mjs await esperar(800) at the end of every iteration; the
\* loops of the two adapters only if (i < messages.length - 1)
DelayFollows(impl, i, n) == impl \in {"indexTwilio", "indexMeta"} \/ i < n

InitSend ==
  /\ sendImpl \in SendLoops
  /\ sendTotal \in 1..MaxFragments
  /\ sendLog = <<>>
  /\ sendPc = "loop"
  /\ sendStarted = <<>>
  /\ sendDelays = 0

\* the loop starting the request of a fragment while an earlier one is in flight
StartRequestUnawaited ==
  /\ sendPc \in {"loop", "awaiting"}
  /\ Len(sendStarted) < sendTotal
  /\ sendStarted' = Append(sendStarted, Len(sendStarted) + 1)
  /\ sendPc' = "awaiting"
  /\ UNCHANGED <<sendImpl, sendTotal, sendLog, sendDelays>>

\* the top of an iteration: the request of the next fragment of the list goes
\* out and the loop awaits it
StartRequest ==
  /\ sendPc = "loop"
  /\ Len(sendStarted) < sendTotal
  /\ sendStarted' = Append(sendStarted, Len(sendStarted) + 1)
  /\ sendPc' = "awaiting"
  /\ UNCHANGED <<sendImpl, sendTotal, sendLog, sendDelays>>

\* the awaited request settles. A response that is not OK is logged or not
\* looked at, and the loop goes on; a rejected fetch that nothing catches leaves
\* the loop
SendFragment(out) ==
  /\ sendPc = "awaiting"
  /\ sendLog' = Append(sendLog, out)
  /\ sendPc' = IF out = "throws" /\ ~CatchesThrow(sendImpl) THEN "thrown"
               ELSE IF DelayFollows(sendImpl, Len(sendLog) + 1, sendTotal) THEN "delay"
               ELSE IF Len(sendLog) + 1 = sendTotal THEN "done"
               ELSE "loop"
  /\ UNCHANGED <<sendImpl, sendTotal, sendStarted, sendDelays>>

\* await esperar(800) (650 in part_003), then the next iteration or the end
esperar ==
  /\ sendPc = "delay"
  /\ sendDelays' = sendDelays + 1
  /\ sendPc' = IF Len(sendLog) = sendTotal THEN "done" ELSE "loop"
  /\ UNCHANGED <<sendImpl, sendTotal, sendLog, sendStarted>>

IdleSend ==
  /\ sendImpl = "none" /\ sendTotal = 0 /\ sendLog = <<>> /\ sendPc = "idle"
  /\ sendStarted = <<>> /\ sendDelays = 0

(***************************************************************************)
(* The web/API branch: a client that sends { input, sessionId } as the     *)
(* context test does. Reads, writes and the model call succeed.            *)
(***************************************************************************)
WebHandlers == {"index.mjs", "part_003"}

WebInputs == {Hola, UserText, AyudaUrgente}

\* key 0 is history/web:<sessionId>.json, key n the object under the id that
\* the n-th request generated
WebKeys == 0..MaxExchanges

SystemPromptText == "Actuas como un asistente virtual joven"

NoResponse == [status |-> 0, history |-> <<>>, contextMaintained |-> "undefined"]

\* part_003 keys the history by parsed.sessionId; index.mjs reads parsed.userId,
\* which the client does not send, and falls back to a generated id
WebUserId(impl, n) == IF impl = "part_003" THEN 0 ELSE n

\* part_003 loads the history of the session; index.mjs loads a history only
\* when parsed.userId is there, else history = []
WebHistory(impl, store) == IF impl = "part_003" THEN store[0] ELSE <<>>

HasSystemPrompt(history) ==
  \E i \in DOMAIN history :
    history[i].role = "user" /\ history[i].text = SystemPromptText

\* part_003 puts its prompt in front of a history that does not have it
FullHistory(impl, history) ==
  IF impl = "part_003" /\ ~HasSystemPrompt(history)
    THEN <<UserTurn(SystemPromptText, NoId)>> \o history
  ELSE history

InitWeb ==
  /\ webImpl \in WebHandlers
  /\ webStore = [k \in WebKeys |-> <<>>]
  /\ webSent = <<>>
  /\ webResp = NoResponse

\* one request of the session, from the parse to the response
WebRequest(input) ==
  /\ Len(webSent) < MaxExchanges
  /\ LET userId == WebUserId(webImpl, Len(webSent) + 1)
         history == WebHistory(webImpl, webStore)
         updatedMessages ==
           Append(trimHistory(FullHistory(webImpl, history)), UserTurn(input, NoId))
         newHistory == Append(updatedMessages, AssistantTurn(AssistantText))
     IN /\ webStore' = [webStore EXCEPT ![userId] = newHistory]
        /\ webResp' =
             [status |-> 200, history |-> newHistory,
              contextMaintained |->
                IF webImpl # "part_003" THEN "undefined"
                ELSE IF Len(history) > 0 THEN "true" ELSE "false"]
  /\ webSent' = Append(webSent, input)
  /\ UNCHANGED webImpl

IdleWeb ==
  /\ webImpl = "none" /\ webStore = [k \in WebKeys |-> <<>>]
  /\ webSent = <<>> /\ webResp = NoResponse

(***************************************************************************)
(* The history that goes to the generation backend with a new user turn.   *)
(***************************************************************************)
\* trimHistory of the second handler of index.mjs (781-785): what is not a user
\* or assistant turn, then the last MAX_TURNS * 2 turns
trimHistorySecond(messages) ==
  LET IsSystem(m) == ~IsConversationTurn(m)
  IN SelectSeq(messages, IsSystem)
       \o LastN(SelectSeq(messages, IsConversationTurn), MAX_TURNS * 2)

\* the history of the request to the backend: updatedMessages of the two
\* handlers of index.mjs (the second puts its prompt, a user turn, in front of
\* an empty history), payload.history of the adapter (the live array after
\* history.push(userMessage))
HistoryForBackend(impl, log, text, id) ==
  IF impl = "index" THEN UpdatedMessages(log, text, id)
  ELSE IF impl = "indexSecond"
    THEN Append(trimHistorySecond(IF log = <<>>
                                    THEN <<UserTurn(SystemPromptText, NoId)>>
                                    ELSE log),
                UserTurn(text, NoId))
  ELSE Append(log, UserTurn(text, id))

InitTrim ==
  /\ trimImpl \in {"index", "indexSecond", "adapter"}
  /\ trimLog = <<>>
  /\ trimPassed = <<>>
  /\ trimCount = 0

\* one request of the user that the backend answers with one reply: the history
\* goes to the backend, then the reply is appended and the history stored
BackendRequest(text) ==
  /\ trimCount < MaxRequests
  /\ trimCount' = trimCount + 1
  /\ trimPassed' = HistoryForBackend(trimImpl, trimLog, text, ToString(trimCount + 1))
  /\ trimLog' = Append(trimPassed', AssistantTurn(AssistantText))
  /\ UNCHANGED trimImpl

IdleTrim == trimImpl = "none" /\ trimLog = <<>> /\ trimPassed = <<>> /\ trimCount = 0

(***************************************************************************)
(* The handler of the earlier adapter (part_000 lines 198-739, part_002    *)
(* lines 66-568): memory is a module-level object; a request whose sender  *)
(* cannot be recovered goes through the fallback of part_000 lines         *)
(* 538-583.  The backups of this handler are written together with         *)
(* memory[userId] and are never read while it exists, so they are left     *)
(* out.                                                                    *)
(***************************************************************************)
LegacyPhones == {<<"1", "5">>, <<"2", "7">>}

LegacyUsers == {WaPrefix \o p : p \in LegacyPhones}

\* a turn as the handler stores it; sender is the phone that the payload of the
\* request carried (Absent when it carried none), time is metadata.timestamp
LegacyTurn(role, text, id, sender, time) ==
  [role |-> role, text |-> text, messageId |-> id, sender |-> sender, time |-> time]

\* the user key of a request: wa:<digits> from the payload; else (lines 564-583)
\* the wa: key of memory whose last turn is the most recent; else anon
fallbackUserId(mem, sender) ==
  IF sender # Absent THEN WaPrefix \o sender
  ELSE LET recentUsers == {u \in LegacyUsers : mem[u] # <<>>}
           last(u) == mem[u][Len(mem[u])].time
       IN IF recentUsers # {}
            THEN CHOOSE u \in recentUsers : \A v \in recentUsers : last(v) <= last(u)
            ELSE Anon

NoLegacyRun == [sender |-> Absent, userId |-> Anon, history |-> <<>>, status |-> "none"]

InitLegacy ==
  /\ legMemory = [u \in LegacyUsers \cup {Anon} |-> <<>>]
  /\ legRun = NoLegacyRun
  /\ legCount = 0

\* one invocation of the handler, from the parse to the return
HandleLegacy(sender, id, backendOk) ==
  /\ legCount < MaxLegacyRequests
  /\ legCount' = legCount + 1
  /\ LET userId == fallbackUserId(legMemory, sender)
         history == legMemory[userId]
         withUser == Append(history,
                            LegacyTurn("user", UserText, id, sender, legCount + 1))
         r == [sender |-> sender, userId |-> userId, history |-> history,
               status |-> "none"]
     IN IF IsDuplicateMeta(history, UserText, id)
          THEN /\ legRun' = [r EXCEPT !.status = "duplicate"]
               /\ UNCHANGED legMemory
        ELSE IF backendOk
          THEN /\ legRun' = [r EXCEPT !.status = "replied"]
               /\ legMemory' =
                    [legMemory EXCEPT ![userId] =
                       Append(withUser,
                              LegacyTurn("assistant", AssistantText, NoId, sender,
                                         legCount + 1))]
        \* history.push(userMessage) has acted on memory[userId] when it is there
        ELSE /\ legRun' = [r EXCEPT !.status = "error"]
             /\ legMemory' = IF history # <<>>
                               THEN [legMemory EXCEPT ![userId] = withUser]
                               ELSE legMemory

IdleLegacy ==
  /\ legMemory = [u \in LegacyUsers \cup {Anon} |-> <<>>]
  /\ legRun = NoLegacyRun /\ legCount = 0

(***************************************************************************)
(* Is a message with media an audio message?  Content types are sequences  *)
(* of characters.                                                          *)
(***************************************************************************)
\* MediaContentType<i> values of the providers
ContentTypes ==
  {<<"a", "u", "d", "i", "o", "/", "o", "g", "g">>,
   <<"a", "u", "d", "i", "o", "/", "m", "p", "e", "g">>,
   <<"a", "u", "d", "i", "o", "/", "a", "m", "r">>,
   <<"A", "U", "D", "I", "O", "/", "O", "G", "G">>,
   <<"v", "i", "d", "e", "o", "/", "m", "p", "4">>,
   <<"v", "i", "d", "e", "o", "/", "w", "e", "b", "m">>,
   <<"i", "m", "a", "g", "e", "/", "j", "p", "e", "g">>,
   <<"a", "p", "p", "l", "i", "c", "a", "t", "i", "o", "n", "/", "p", "d", "f">>}

\* MessageType of the form
MessageTypes == {"text", "audio"}

\* String.includes
Includes(s, t) ==
  \E k \in 0..(Len(s) - Len(t)) : SubSeq(s, k + 1, k + Len(t)) = t

\* String.toLowerCase, on the letters of the content types
ToLowerCase(s) ==
  LET lower(c) == CASE c = "A" -> "a" [] c = "U" -> "u" [] c = "D" -> "d"
                    [] c = "I" -> "i" [] c = "O" -> "o" [] c = "G" -> "g"
                    [] OTHER -> c
  IN [k \in DOMAIN s |-> lower(s[k])]

\* audioTypes.map(type => type.split('/')[1])
AudioSubtypes ==
  {<<"o", "g", "g">>, <<"m", "p", "e", "g">>, <<"m", "p", "4">>, <<"w", "a", "v">>, <<"w", "e", "b", "m">>, <<"a", "a", "c">>}

\* isAudioFile of WhatsAppAdapter.mjs: the lower-cased content type includes the
\* subtype of one of the six audio types
isAudioFileType(contentType) ==
  /\ contentType # Absent
  /\ \E sub \in AudioSubtypes : Includes(ToLowerCase(contentType), sub)

\* isAudio of part_001
isAudio(contentType) ==
  contentType # Absent /\ Includes(contentType, <<"a", "u", "d", "i", "o">>)

\* the test that sends a message to the transcription: the adapter (line 815)
\* with MessageType of the form, part_001 (line 720) on its one media descriptor
RoutedToTranscription(impl, messageType, medias) ==
  IF impl = "adapter"
    THEN medias # <<>> /\ (messageType = "audio"
                             \/ \E k \in DOMAIN medias : isAudioFileType(medias[k]))
  ELSE medias # <<>> /\ isAudio(medias[1])

InitClassify ==
  /\ audImpl \in {"adapter", "part_001"}
  /\ audTypes \in UNION {[1..n -> ContentTypes] : n \in 1..MaxMedia}
  /\ audImpl = "part_001" => Len(audTypes) = 1
  /\ audRouted = Unset

\* the handler reaches its audio test
Classify(messageType) ==
  /\ audRouted = Unset
  /\ audRouted' = IF RoutedToTranscription(audImpl, messageType, audTypes)
                    THEN "transcription" ELSE "text"
  /\ UNCHANGED <<audImpl, audTypes>>

IdleClassify == audImpl = "none" /\ audTypes = <<>> /\ audRouted = Unset

(***************************************************************************)
(* The parsing of a request body.  A body is a sequence of characters; a   *)
(* long run of base64 characters (a form body that was encoded a second    *)
(* time) is one element of the sequence and counts with its length.  A     *)
(* parsed mapping is a set of <<key, values>> with one pair for each key.  *)
(***************************************************************************)
\* allKeys[0].length > 100
LongKey == 100

\* base64 runs of 104 characters, named after what they decode to
Base64Runs == {"b64(k=v&v=k)", "b64(k=v)", "b64(bytes)"}

WordChars == {"k", "v"} \cup Base64Runs

\* the bodies of form-encoded requests: up to MaxBodyLen characters, or a base64
\* run followed by characters
FormBodies ==
  LET chars == {"k", "v", "=", "&", "+", "%"}
      seqs(n) == UNION {[1..m -> chars] : m \in 0..n}
  IN seqs(MaxBodyLen)
     \cup {<<b>> \o t : b \in Base64Runs,
                        t \in {x \in seqs(MaxBodyLen - 1) :
                                 x # <<>> => x[1] \notin WordChars}}

\* the bodies of JSON requests: an object, the literal null, a cut-off document
JsonBodies == {<<"{", "}">>, <<"n", "u", "l", "l">>, <<"{">>}

\* String.length
StringLength(s) ==
  LET RECURSIVE sum(_)
      sum(i) == IF i = 0 THEN 0
                ELSE sum(i - 1) + (IF s[i] \in Base64Runs THEN 104 ELSE 1)
  IN sum(Len(s))

\* Buffer.from(singleKey, 'base64').toString('utf8'), for one base64 run
Base64Decode(singleKey) ==
  CASE singleKey = <<"b64(k=v&v=k)">> -> <<"k", "=", "v", "&", "v", "=", "k">>
    [] singleKey = <<"b64(k=v)">> -> <<"k", "=", "v">>
    [] OTHER -> <<"?">>

\* the pieces of s between the "&", each with its position, in a set
Segments(s) ==
  LET amps == {i \in DOMAIN s : s[i] = "&"}
      starts == {1} \cup {i + 1 : i \in amps}
      stop(p) == CHOOSE e \in ({i \in amps : i >= p} \cup {Len(s) + 1}) :
                   \A i \in amps : i >= p => e <= i
  IN {<<p, SubSeq(s, p, stop(p) - 1)>> : p \in starts}

\* querystring.parse and new URLSearchParams: the fields between the "&", key
\* and value split at the first "=", "+" read as a space, a "%" that starts no
\* escape kept; a key that comes twice has both values
QsParse(body) ==
  LET unescape(x) == [i \in DOMAIN x |-> IF x[i] = "+" THEN " " ELSE x[i]]
      eq(seg) == CHOOSE k \in 1..(Len(seg) + 1) :
                   /\ k <= Len(seg) => seg[k] = "="
                   /\ \A j \in 1..(k - 1) : seg[j] # "="
      fields == {<<sg[1], unescape(SubSeq(sg[2], 1, eq(sg[2]) - 1)),
                   unescape(SubSeq(sg[2], eq(sg[2]) + 1, Len(sg[2])))>> :
                   sg \in {x \in Segments(body) : x[2] # <<>>}}
      at(key) == {f[1] : f \in {g \in fields : g[2] = key}}
      nth(key, i) == CHOOSE f \in fields :
                       /\ f[2] = key
                       /\ Cardinality({p \in at(key) : p < f[1]}) = i - 1
  IN {<<key, [i \in 1..Cardinality(at(key)) |-> nth(key, i)[3]]>> :
        key \in {f[2] : f \in fields}}

\* allKeys.length === 1 && allKeys[0].length > 100 && (no value, '' or '=');
\* index.mjs tests !params.get(allKeys[0]) only
LooksDoubleEncoded(impl, parsed) ==
  /\ Cardinality(parsed) = 1
  /\ \E pr \in parsed :
       /\ StringLength(pr[1]) > LongKey
       /\ \/ pr[2] = <<<<>>>>
          \/ impl = "adapter" /\ pr[2] = <<<<"=">>>>
          \/ impl = "index" /\ pr[2][1] = <<>>

\* /^[A-Za-z0-9+/]+=*$/.test(singleKey)
IsBase64(singleKey) ==
  singleKey # <<>> /\ \A i \in DOMAIN singleKey : singleKey[i] \in WordChars

\* tryDecodeBase64Form: the parsed decoding, or null
tryDecodeBase64Form(singleKey) ==
  IF IsBase64(singleKey)
    THEN [null |-> FALSE, form |-> QsParse(Base64Decode(singleKey))]
  ELSE [null |-> TRUE, form |-> {}]

\* tryEmergencyParsing: the matches of /(\w+)=([^&]*)/g are, in each piece
\* between two "&", the first run of word characters followed by "=" with the
\* rest of the piece; match.split('=') keeps the run and what follows up to the
\* next "="; decodeURIComponent throws on a "%" that starts no escape, the catch
\* returns null; a key that comes twice keeps its last value
tryEmergencyParsing(bodyToParse) ==
  LET isRun(seg, a, b) ==
        /\ a <= b /\ b < Len(seg) /\ seg[b + 1] = "="
        /\ \A i \in a..b : seg[i] \in WordChars
        /\ a > 1 => seg[a - 1] \notin WordChars
      runs(seg) == {<<a, b>> \in (DOMAIN seg) \X (DOMAIN seg) : isRun(seg, a, b)}
      first(seg) == CHOOSE r \in runs(seg) : \A q \in runs(seg) : r[1] <= q[1]
      rest(seg) == SubSeq(seg, first(seg)[2] + 2, Len(seg))
      cut(x) == CHOOSE k \in 1..(Len(x) + 1) :
                  /\ k <= Len(x) => x[k] = "="
                  /\ \A j \in 1..(k - 1) : x[j] # "="
      matches == {<<sg[1], SubSeq(sg[2], first(sg[2])[1], first(sg[2])[2]),
                    SubSeq(rest(sg[2]), 1, cut(rest(sg[2])) - 1)>> :
                    sg \in {x \in Segments(bodyToParse) : runs(x[2]) # {}}}
      throws == \E m \in matches : \E i \in DOMAIN m[3] : m[3][i] = "%"
      last(key) == CHOOSE m \in matches :
                     m[2] = key /\ \A n \in matches : n[2] = key => n[1] <= m[1]
  IN IF matches = {} \/ throws THEN [null |-> TRUE, form |-> {}]
     ELSE [null |-> FALSE,
           form |-> {<<key, <<last(key)[3]>>>> : key \in {m[2] : m \in matches}}]

\* JSON.parse of the three JSON bodies
JsonParse(body) ==
  CASE body = <<"{", "}">> -> [status |-> "mapping", form |-> {}]
    [] body = <<"n", "u", "l", "l">> -> [status |-> "null", form |-> {}]
    [] OTHER -> [status |-> "throws", form |-> {}]

NoDetection == [status |-> "unset", form |-> {}, tried |-> {}, failed |-> {}]

\* parseFormData of WhatsAppAdapter.mjs on the body itself: status and form of
\* what it returns, the recovery strategies it tried and those that failed
parseFormDataBody(contentType, body) ==
  IF contentType = "json"
    THEN LET j == JsonParse(body)
         IN [status |-> IF j.status = "throws" THEN "mapping" ELSE j.status,
             form |-> {}, tried |-> {}, failed |-> {}]
  ELSE
    LET plain == QsParse(body)
        long == LooksDoubleEncoded("adapter", plain)
        b64 == IF long THEN tryDecodeBase64Form((CHOOSE pr \in plain : TRUE)[1])
               ELSE [null |-> TRUE, form |-> {}]
        parsed == IF b64.null THEN plain ELSE b64.form
        emergency == Cardinality(parsed) <= 1
        em == IF emergency THEN tryEmergencyParsing(body)
              ELSE [null |-> TRUE, form |-> {}]
    IN [status |-> "mapping",
        form |-> IF em.null THEN parsed ELSE em.form,
        tried |-> (IF long THEN {"base64"} ELSE {})
                  \cup (IF emergency THEN {"regex"} ELSE {}),
        failed |-> (IF long /\ b64.null THEN {"base64"} ELSE {})
                   \cup (IF emergency /\ em.null THEN {"regex"} ELSE {})]

\* lines 333-359 of index.mjs: Buffer.from does not throw, so the percent-decoding
\* of its catch is never reached; a key that is not base64 is parsed again as it is
parseTwilioParams(body) ==
  LET plain == QsParse(body)
      long == LooksDoubleEncoded("index", plain)
      singleKey == (CHOOSE pr \in plain : TRUE)[1]
      decodedBody == IF IsBase64(singleKey) THEN Base64Decode(singleKey)
                     ELSE singleKey
  IN [status |-> "mapping",
      form |-> IF long THEN QsParse(decodedBody) ELSE plain,
      tried |-> IF long THEN {"base64"} ELSE {},
      failed |-> IF long /\ ~IsBase64(singleKey) THEN {"base64"} ELSE {}]

InitDetect ==
  /\ detImpl \in {"adapter", "index"}
  /\ detContentType \in {"form", "json"}
  /\ detImpl = "index" => detContentType = "form"
  /\ detBody \in IF detContentType = "form" THEN FormBodies ELSE JsonBodies
  /\ detResult = NoDetection

\* the handler parses the body of the request
Detect ==
  /\ detResult.status = "unset"
  /\ detResult' = IF detImpl = "adapter"
                    THEN parseFormDataBody(detContentType, detBody)
                  ELSE parseTwilioParams(detBody)
  /\ UNCHANGED <<detImpl, detContentType, detBody>>

IdleDetect ==
  /\ detImpl = "none" /\ detContentType = "none" /\ detBody = <<>>
  /\ detResult = NoDetection

(***************************************************************************)
(* Specifications: each one runs one part of the program and leaves the    *)
(* variables of the other parts at rest.                                   *)
(***************************************************************************)
IdleIdent ==
  /\ idDigits = <<>> /\ idFormA = EmptyForm /\ idFormB = EmptyForm
  /\ idMeta = EmptyForm /\ idKeys = [r \in Resolvers |-> NoKeys]

IdlePoll ==
  /\ pollImpl = "none" /\ pollPc = "done" /\ pollAttempts = 0
  /\ pollStatus = "IN_PROGRESS" /\ pollRequests = 0 /\ pollResult = Unset
  /\ jobStarts = 0

InitIdentity == InitIdent /\ IdlePoll /\ IdleIndex /\ IdleAdapter /\ IdleSplit
  /\ IdleSend /\ IdleWeb /\ IdleTrim /\ IdleLegacy /\ IdleClassify
  /\ IdleDetect

NextIdent ==
  \/ ResolveAdapter /\ UNCHANGED <<pollVars, indexVars, adapterVars, splitVars, sendVars, webVars, trimVars, legacyVars, audioVars, detectVars>>
  \/ ResolveIndex /\ UNCHANGED <<pollVars, indexVars, adapterVars, splitVars, sendVars, webVars, trimVars, legacyVars, audioVars, detectVars>>
  \/ ResolveLegacy /\ UNCHANGED <<pollVars, indexVars, adapterVars, splitVars, sendVars, webVars, trimVars, legacyVars, audioVars, detectVars>>

SpecIdentity == InitIdentity /\ [][NextIdent]_vars

InitPrecedence == InitIdentBothFields /\ IdlePoll /\ IdleIndex /\ IdleAdapter
  /\ IdleSplit /\ IdleSend /\ IdleWeb /\ IdleTrim /\ IdleLegacy
  /\ IdleClassify /\ IdleDetect

\* the resolvers on Twilio forms whose From and WaId need not carry the same digits
SpecPrecedence == InitPrecedence /\ [][NextIdent]_vars

InitPolling == InitPoll /\ IdleIdent /\ IdleIndex /\ IdleAdapter /\ IdleSplit
  /\ IdleSend /\ IdleWeb /\ IdleTrim /\ IdleLegacy /\ IdleClassify
  /\ IdleDetect

NextPoll ==
  \E resp \in PollResponses :
    PollIteration(resp) /\ UNCHANGED <<identVars, indexVars, adapterVars, splitVars, sendVars, webVars, trimVars, legacyVars, audioVars, detectVars>>

\* the loop body is straight-line code between two awaits that both settle (a
\* timer and a request that answers or errors): an enabled iteration happens
SpecPoll == InitPolling /\ [][NextPoll]_vars /\ WF_vars(NextPoll)

InitTranscription == InitTranscribe /\ IdleIdent /\ IdleIndex /\ IdleAdapter
  /\ IdleSplit /\ IdleSend /\ IdleWeb /\ IdleTrim /\ IdleLegacy
  /\ IdleClassify /\ IdleDetect

NextTranscribe ==
  \/ \E out \in StartOutcomes :
       startTranscription(out) /\ UNCHANGED <<identVars, indexVars, adapterVars, splitVars, sendVars, webVars, trimVars, legacyVars, audioVars, detectVars>>
  \/ \E resp \in PollResponses :
       PollIteration(resp) /\ UNCHANGED <<identVars, indexVars, adapterVars, splitVars, sendVars, webVars, trimVars, legacyVars, audioVars, detectVars>>

\* transcribeAudio from the start request to the end of its poll loop
SpecTranscribe == InitTranscription /\ [][NextTranscribe]_vars

InitIndexHandler == InitIndex /\ IdleIdent /\ IdlePoll /\ IdleAdapter
  /\ IdleSplit /\ IdleSend /\ IdleWeb /\ IdleTrim /\ IdleLegacy
  /\ IdleClassify /\ IdleDetect

NextIndex ==
  \/ \E d \in Deliveries, ev \in IndexEvents, loadOk \in BOOLEAN :
       \E mediaOut \in MediaOutcomes(ev) :
         Receive(d, ev, loadOk, mediaOut)
           /\ UNCHANGED <<identVars, pollVars, adapterVars, splitVars, sendVars, webVars, trimVars, legacyVars, audioVars, detectVars>>
  \/ \E d \in Deliveries, backendOk \in BOOLEAN :
       Invoke(d, backendOk)
         /\ UNCHANGED <<identVars, pollVars, adapterVars, splitVars, sendVars, webVars, trimVars, legacyVars, audioVars, detectVars>>
  \/ \E d \in Deliveries, saveOk \in BOOLEAN, sendOut \in SendOutcomes :
       SaveAndSend(d, saveOk, sendOut)
         /\ UNCHANGED <<identVars, pollVars, adapterVars, splitVars, sendVars, webVars, trimVars, legacyVars, audioVars, detectVars>>

SpecIndex == InitIndexHandler /\ [][NextIndex]_vars

InitIndexSequential == InitIndex /\ IdleIdent /\ IdlePoll /\ IdleAdapter
  /\ IdleSplit /\ IdleSend /\ IdleWeb /\ IdleTrim /\ IdleLegacy
  /\ IdleClassify /\ IdleDetect

NextIndexSequential ==
  \/ \E d \in Deliveries, ev \in IndexEvents, loadOk \in BOOLEAN :
       \E mediaOut \in MediaOutcomes(ev) :
         /\ NoneInProgress
         /\ Receive(d, ev, loadOk, mediaOut)
         /\ UNCHANGED <<identVars, pollVars, adapterVars, splitVars, sendVars, webVars, trimVars, legacyVars, audioVars, detectVars>>
  \/ \E d \in Deliveries, backendOk \in BOOLEAN :
       Invoke(d, backendOk)
         /\ UNCHANGED <<identVars, pollVars, adapterVars, splitVars, sendVars, webVars, trimVars, legacyVars, audioVars, detectVars>>
  \/ \E d \in Deliveries, saveOk \in BOOLEAN, sendOut \in SendOutcomes :
       SaveAndSend(d, saveOk, sendOut)
         /\ UNCHANGED <<identVars, pollVars, adapterVars, splitVars, sendVars, webVars, trimVars, legacyVars, audioVars, detectVars>>

\* the requests of the sender one after the other: an invocation starts only when
\* the one before has returned
SpecIndexSequential == InitIndexSequential /\ [][NextIndexSequential]_vars

InitIndexRace == InitIndex /\ IdleIdent /\ IdlePoll /\ IdleAdapter /\ IdleSplit
  /\ IdleSend /\ IdleWeb /\ IdleTrim /\ IdleLegacy /\ IdleClassify
  /\ IdleDetect

NextIndexRace ==
  \/ \E d \in Deliveries, ev \in RaceEvents :
       \E mediaOut \in MediaOutcomes(ev) :
         Receive(d, ev, TRUE, mediaOut)
           /\ UNCHANGED <<identVars, pollVars, adapterVars, splitVars, sendVars, webVars, trimVars, legacyVars, audioVars, detectVars>>
  \/ \E d \in Deliveries, backendOk \in BOOLEAN :
       Invoke(d, backendOk)
         /\ UNCHANGED <<identVars, pollVars, adapterVars, splitVars, sendVars, webVars, trimVars, legacyVars, audioVars, detectVars>>
  \/ \E d \in Deliveries, sendOut \in SendOutcomes :
       SaveAndSend(d, TRUE, sendOut)
         /\ UNCHANGED <<identVars, pollVars, adapterVars, splitVars, sendVars, webVars, trimVars, legacyVars, audioVars, detectVars>>

\* concurrent invocations of the handler of index.mjs over a store whose reads
\* and writes all succeed
SpecIndexRace == InitIndexRace /\ [][NextIndexRace]_vars

InitIndexNoId == InitIndex /\ IdleIdent /\ IdlePoll /\ IdleAdapter /\ IdleSplit
  /\ IdleSend /\ IdleWeb /\ IdleTrim /\ IdleLegacy /\ IdleClassify
  /\ IdleDetect

NextIndexNoId ==
  \/ \E d \in Deliveries, ev \in IdlessEvents, loadOk \in BOOLEAN :
       \E mediaOut \in MediaOutcomes(ev) :
         Receive(d, ev, loadOk, mediaOut)
           /\ UNCHANGED <<identVars, pollVars, adapterVars, splitVars, sendVars, webVars, trimVars, legacyVars, audioVars, detectVars>>
  \/ \E d \in Deliveries, backendOk \in BOOLEAN :
       Invoke(d, backendOk)
         /\ UNCHANGED <<identVars, pollVars, adapterVars, splitVars, sendVars, webVars, trimVars, legacyVars, audioVars, detectVars>>
  \/ \E d \in Deliveries, saveOk \in BOOLEAN, sendOut \in SendOutcomes :
       SaveAndSend(d, saveOk, sendOut)
         /\ UNCHANGED <<identVars, pollVars, adapterVars, splitVars, sendVars, webVars, trimVars, legacyVars, audioVars, detectVars>>

\* the handler of index.mjs receiving events that carry no message id
SpecIndexNoId == InitIndexNoId /\ [][NextIndexNoId]_vars

InitAdapterHandler == InitAdapter /\ IdleIdent /\ IdlePoll /\ IdleIndex
  /\ IdleSplit /\ IdleSend /\ IdleWeb /\ IdleTrim /\ IdleLegacy
  /\ IdleClassify /\ IdleDetect

NextAdapter ==
  \/ \E ev \in AdapterEvents, backendOut \in BackendOutcomes, sendOk \in BOOLEAN :
       \E audioOut \in AudioOutcomesOf(ev) :
         /\ nRuns < MaxInvocations
         /\ HandleAdapter(ev, audioOut, backendOut, sendOk)
         /\ UNCHANGED <<identVars, pollVars, indexVars, splitVars, sendVars, webVars, trimVars, legacyVars, audioVars, detectVars>>
  \/ ColdStart /\ UNCHANGED <<identVars, pollVars, indexVars, splitVars, sendVars, webVars, trimVars, legacyVars, audioVars, detectVars>>

SpecAdapter == InitAdapterHandler /\ [][NextAdapter]_vars

InitCommits == InitAdapter /\ IdleIdent /\ IdlePoll /\ IdleIndex /\ IdleSplit
  /\ IdleSend /\ IdleWeb /\ IdleTrim /\ IdleLegacy /\ IdleClassify
  /\ IdleDetect

NextCommits ==
  \/ \E ev \in AdapterEvents :
       \E audioOut \in AudioOutcomesOf(ev) :
         /\ nRuns < MaxCommits
         /\ HandleAdapter(ev, audioOut, "reply", TRUE)
         /\ UNCHANGED <<identVars, pollVars, indexVars, splitVars, sendVars, webVars, trimVars, legacyVars, audioVars, detectVars>>
  \/ ColdStart /\ UNCHANGED <<identVars, pollVars, indexVars, splitVars, sendVars, webVars, trimVars, legacyVars, audioVars, detectVars>>

\* the adapter when the backend answers every request with a reply, so that every
\* invocation commits the reply and writes a backup
SpecCommits == InitCommits /\ [][NextCommits]_vars

InitSplitter == InitSplit /\ IdleIdent /\ IdlePoll /\ IdleIndex /\ IdleAdapter
  /\ IdleSend /\ IdleWeb /\ IdleTrim /\ IdleLegacy /\ IdleClassify
  /\ IdleDetect

NextSplit ==
  \/ RunDividirRespuesta /\ UNCHANGED <<identVars, pollVars, indexVars, adapterVars, sendVars, webVars, trimVars, legacyVars, audioVars, detectVars>>
  \/ RunDividirRespuestaLegacy /\ UNCHANGED <<identVars, pollVars, indexVars, adapterVars, sendVars, webVars, trimVars, legacyVars, audioVars, detectVars>>
  \/ RunSplitMessage /\ UNCHANGED <<identVars, pollVars, indexVars, adapterVars, sendVars, webVars, trimVars, legacyVars, audioVars, detectVars>>

SpecSplit == InitSplitter /\ [][NextSplit]_vars

InitSending == InitSend /\ IdleIdent /\ IdlePoll /\ IdleIndex /\ IdleAdapter
  /\ IdleSplit /\ IdleWeb /\ IdleTrim /\ IdleLegacy /\ IdleClassify
  /\ IdleDetect

NextSend ==
  \/ StartRequest /\ UNCHANGED <<identVars, pollVars, indexVars, adapterVars, splitVars, webVars, trimVars, legacyVars, audioVars, detectVars>>
  \/ \E out \in FragmentOutcomes :
       SendFragment(out) /\ UNCHANGED <<identVars, pollVars, indexVars, adapterVars, splitVars, webVars, trimVars, legacyVars, audioVars, detectVars>>
  \/ esperar /\ UNCHANGED <<identVars, pollVars, indexVars, adapterVars, splitVars, webVars, trimVars, legacyVars, audioVars, detectVars>>

SpecSend == InitSending /\ [][NextSend]_vars

InitWebSession == InitWeb /\ IdleIdent /\ IdlePoll /\ IdleIndex /\ IdleAdapter
  /\ IdleSplit /\ IdleSend /\ IdleTrim /\ IdleLegacy /\ IdleClassify
  /\ IdleDetect

NextWeb ==
  \E input \in WebInputs :
    WebRequest(input) /\ UNCHANGED <<identVars, pollVars, indexVars, adapterVars, splitVars, sendVars, trimVars, legacyVars, audioVars, detectVars>>

SpecWeb == InitWebSession /\ [][NextWeb]_vars

InitTrimming == InitTrim /\ IdleIdent /\ IdlePoll /\ IdleIndex /\ IdleAdapter
  /\ IdleSplit /\ IdleSend /\ IdleWeb /\ IdleLegacy /\ IdleClassify
  /\ IdleDetect

NextTrim ==
  \E text \in {UserText, Hola} :
    BackendRequest(text) /\ UNCHANGED <<identVars, pollVars, indexVars, adapterVars, splitVars, sendVars, webVars, legacyVars, audioVars, detectVars>>

SpecTrim == InitTrimming /\ [][NextTrim]_vars

InitLegacyHandler == InitLegacy /\ IdleIdent /\ IdlePoll /\ IdleIndex
  /\ IdleAdapter /\ IdleSplit /\ IdleSend /\ IdleWeb /\ IdleTrim
  /\ IdleClassify /\ IdleDetect

NextLegacy ==
  \E sender \in LegacyPhones \cup {Absent}, id \in TwilioIds \cup {NoId}, backendOk \in BOOLEAN :
    HandleLegacy(sender, id, backendOk) /\ UNCHANGED <<identVars, pollVars, indexVars, adapterVars, splitVars, sendVars, webVars, trimVars, audioVars, detectVars>>

SpecLegacy == InitLegacyHandler /\ [][NextLegacy]_vars

InitClassifier == InitClassify /\ IdleIdent /\ IdlePoll /\ IdleIndex
  /\ IdleAdapter /\ IdleSplit /\ IdleSend /\ IdleWeb /\ IdleTrim
  /\ IdleLegacy /\ IdleDetect

NextClassify ==
  \E messageType \in MessageTypes :
    Classify(messageType) /\ UNCHANGED <<identVars, pollVars, indexVars, adapterVars, splitVars, sendVars, webVars, trimVars, legacyVars, detectVars>>

SpecClassify == InitClassifier /\ [][NextClassify]_vars

InitDetector == InitDetect /\ IdleIdent /\ IdlePoll /\ IdleIndex /\ IdleAdapter
  /\ IdleSplit /\ IdleSend /\ IdleWeb /\ IdleTrim /\ IdleLegacy
  /\ IdleClassify

NextDetect ==
  Detect /\ UNCHANGED <<identVars, pollVars, indexVars, adapterVars, splitVars, sendVars, webVars, trimVars, legacyVars, audioVars>>

SpecDetect == InitDetector /\ [][NextDetect]_vars

(***************************************************************************)
(* Claims                                                                  *)
(***************************************************************************)
\* C5: two phone representations with the same digit sequence that differ only in
\* formatting (a leading whatsapp: tag, a leading +, separators) resolve to the
\* same canonical key, which is wa: followed by exactly those digits
\* (WhatsAppAdapter.mjs extractUserInfo and the handler of index.mjs).
C5_IdentityNormalization ==
  \A r \in {"adapter", "index"} :
    idKeys[r].set =>
      /\ idKeys[r].A = idKeys[r].B
      /\ idKeys[r].A = WaPrefix \o idDigits

C5_Witness ==
  /\ idKeys["adapter"].set
  /\ idKeys["index"].set
  /\ idFormA.From # Absent /\ idFormB.From # Absent
  /\ idFormA.From # idFormB.From
  /\ StartsWith(idFormA.From, WhatsAppTag \o <<"+">>)
  /\ Len(idDigits) >= 2

\* C6: the same phone delivered once as a channel-A JSON event and once as a
\* channel-B form event resolves to the same canonical user key, in every
\* handler of the repository.
C6_ProviderIndependence ==
  \A r \in Resolvers :
    idKeys[r].set => idKeys[r].M = idKeys[r].A

\* C7: for every sequence of answers of the transcription service (completed,
\* failed, in progress forever, queued, a request that errors) the poll loop
\* returns, having issued at most maxAttempts (30) status requests.
C7_PollTerminates == <>[](pollPc = "done" /\ pollRequests <= maxAttempts)

C7_Witness ==
  /\ pollPc = "done"
  /\ pollRequests = maxAttempts
  /\ pollStatus = "IN_PROGRESS"
  /\ pollResult = "null"

\* C1: a second delivery of an event that was already handled to the end (same
\* message id, same content: text, empty text or audio), whose user turn is among
\* the recent turns of the loaded history, ends at once with HTTP 200 as a
\* duplicate: the model is not invoked, nothing is saved, no reply is sent.
C1_RedeliveryIgnored ==
  \A d \in Deliveries :
    req[d].redelivery =>
      /\ req[d].pc = "done" /\ req[d].status = 200 /\ req[d].cause = "duplicate"
      /\ ~req[d].invoked /\ ~req[d].sent

\* C2: whatever the interleaving of the history loads and saves of the deliveries
\* of one message id, the model is invoked at most once and at most one reply is
\* dispatched for that id.
C2_AtMostOncePerMessageId ==
  \A id \in MetaIds \cup TwilioIds :
    /\ Cardinality({d \in Deliveries : req[d].ev.id = id /\ req[d].invoked}) <= 1
    /\ Cardinality({d \in Deliveries : req[d].ev.id = id /\ req[d].sent}) <= 1

\* C3: no two user turns of the stored history carry the same provider message id.
C3_MessageIdUnique ==
  \A i, j \in DOMAIN s3hist :
    (/\ i # j
     /\ s3hist[i].role = "user" /\ s3hist[j].role = "user"
     /\ s3hist[i].messageId # NoId)
    => s3hist[i].messageId # s3hist[j].messageId

\* C8: when the download, the transcription job or the transcript fetch of a voice
\* note fails, times out or gives empty text, the text of the turn that goes to
\* the model is the fixed apology, never another or an empty text.
C8_AudioFallbackText ==
  \A d \in Deliveries :
    (req[d].pc = "loaded" /\ req[d].audioFailed) => req[d].inputText = AudioNotUnderstood

\* C9: the handler answers HTTP 200 after successful processing, a detected
\* duplicate, a model error, an outbound send failure and an ignored
\* delivery-status callback.
C9_Http200WhenNonFatal ==
  \A d \in Deliveries :
    (/\ req[d].pc = "done"
     /\ req[d].cause \in {"ok", "duplicate", "backend_error", "send_failure",
                          "status_callback"})
    => req[d].status = 200

\* C4: after the form body From=whatsapp:+<digits>&Body=<text>&MessageSid=<id> is
\* handled, the event is keyed wa:<digits> and the stored history of that key has
\* exactly one user turn that carries that text and that message id.
C4_FormEventStored ==
  (/\ run.ev.kind = "form" /\ run.ev.text # "" /\ run.status = 200
   /\ memory[run.userId].present)
  => /\ run.userId = WaPrefix \o AdapterPhone
     /\ Cardinality({i \in DOMAIN memory[run.userId].turns :
           /\ memory[run.userId].turns[i].role = "user"
           /\ memory[run.userId].turns[i].text = run.ev.text
           /\ memory[run.userId].turns[i].messageId = run.ev.id}) = 1

\* C10: when the call to the backend fails, the handler tries to send the fixed
\* "technical problem" message to the sender and then returns a well-formed HTTP
\* response; the error path raises nothing.
C10_ErrorPathAnswers ==
  run.backendFailed =>
    /\ ~run.raised
    /\ run.status \in {200, 500}
    /\ (run.ev.kind # "garbled" => run.sent = <<TechnicalProblem>>)

\* fragments put one after the other
RECURSIVE Flatten(_)
Flatten(fragments) ==
  IF fragments = <<>> THEN <<>> ELSE Head(fragments) \o Flatten(Tail(fragments))

\* the white-space run of length k that starts at i is boundary white space: it
\* starts or ends the text, follows a period, or holds a paragraph break
IsBoundaryRun(t, i, k) ==
  \/ i = 1
  \/ i + k - 1 = Len(t)
  \/ t[i - 1] = "."
  \/ \E j \in i..(i + k - 2) : t[j] = "\n" /\ t[j + 1] = "\n"

\* the content of a text: the text without its boundary white space
RECURSIVE ContentFrom(_, _)
ContentFrom(t, i) ==
  IF i > Len(t) THEN <<>>
  ELSE IF IsSpace(t[i])
    THEN LET k == SpaceRun(t, i)
         IN (IF IsBoundaryRun(t, i, k) THEN <<>> ELSE SubSeq(t, i, i + k - 1))
              \o ContentFrom(t, i + k)
  ELSE <<t[i]>> \o ContentFrom(t, i + 1)

\* C11: for every reply text, the fragments of dividirRespuesta and of
\* splitMessage, put one after the other, have the content of the text: apart
\* from white space at paragraph and sentence boundaries no character is
\* dropped, added or moved.
C11_SplitRoundTrip ==
  splitImpl \in {"dividirRespuesta", "splitMessage"} =>
    ContentFrom(Flatten(splitOut), 1) = ContentFrom(splitText, 1)

\* the positions of a stored history at which a reply was committed
CommitPoints(turns) == {k \in DOMAIN turns : turns[k].role = "assistant"}

\* the histories the latest MaxBackups reply-commits of a stored history wrote
LatestSnapshots(turns) ==
  {SubSeq(turns, 1, k) :
     k \in {j \in CommitPoints(turns) :
              Cardinality({i \in CommitPoints(turns) : i > j}) < MaxBackups}}

\* C13: after any sequence of reply-commits for any users, every user has at
\* most 3 backups, and they are the snapshots that this user's 3 latest
\* reply-commits wrote; every stored backup belongs to a user of the adapter.
C13_BackupRetention ==
  /\ \A b \in backups : b.userId \in AdapterUsers
  /\ \A u \in AdapterUsers :
       /\ Cardinality(BackupsOf(backups, u)) <= 3
       /\ {b.history : b \in BackupsOf(backups, u)} = LatestSnapshots(memory[u].turns)

\* a user has committed more replies than backups are kept, so the oldest were
\* evicted, while another user still has a backup older than all of them
C13_EvictionHappened ==
  \E u, v \in AdapterUsers :
    /\ u # v
    /\ Cardinality(CommitPoints(memory[u].turns)) > MaxBackups
    /\ Cardinality(BackupsOf(backups, u)) = MaxBackups
    /\ \E b \in BackupsOf(backups, v) : \A c \in BackupsOf(backups, u) : b.ts < c.ts

IsPrefix(s, t) == Len(s) <= Len(t) /\ SubSeq(t, 1, Len(s)) = s

\* C14: when the requests of a user run one after the other, every history
\* written to the store begins with the history that was stored before it: no
\* stored turn is removed or replaced.
C14_AppendOnlyLog == [][IsPrefix(s3hist, s3hist')]_vars

\* C15: when a send loop has ended, every fragment of the reply has had its send
\* attempt, whatever happened to the fragments before it (a response that is
\* not OK, or a network error).
C15_EveryFragmentAttempted ==
  sendPc \in {"done", "thrown"} => Len(sendLog) = sendTotal

\* C16: a delivery that the duplicate check classifies as a duplicate is answered
\* with status 200 and does nothing else: the model is not invoked, nothing is
\* sent, the classifying step leaves the stored history as it is, and the
\* invocation never acts again.
C16_DuplicateHasNoEffect ==
  /\ [](\A d \in Deliveries :
         req[d].cause = "duplicate" =>
           /\ req[d].pc = "done" /\ req[d].status = 200
           /\ ~req[d].invoked /\ ~req[d].sent /\ req[d].messages = <<>>)
  /\ [][\A d \in Deliveries :
         /\ (req[d].cause = "duplicate" => req'[d] = req[d])
         /\ (req[d].cause # "duplicate" /\ req'[d].cause = "duplicate"
               => s3hist' = s3hist)]_vars

\* a delivery of an event whose id and text are in the stored history was
\* classified as a duplicate after an earlier delivery was answered and saved
C16_DuplicateClassified ==
  \E d \in Deliveries :
    /\ req[d].cause = "duplicate"
    /\ s3hist # <<>>
    /\ \E d0 \in 1..(d - 1) : req[d0].cause = "ok" /\ req[d0].sent

\* C17: requests that resolve to the key 'anon' are not persistent: no history
\* is stored under 'anon' and no backup is written for it.
C17_AnonNotPersistent ==
  /\ ~memory[Anon].present
  /\ BackupsOf(backups, Anon) = {}

\* the turns of the exchanges of a session, in order
RECURSIVE Exchanges(_)
Exchanges(inputs) ==
  IF inputs = <<>> THEN <<>>
  ELSE <<UserTurn(Head(inputs), NoId), AssistantTurn(AssistantText)>>
         \o Exchanges(Tail(inputs))

IsExchangeTurn(m) == m.text # SystemPromptText

\* C18: from the second request of a web session on, the response reports
\* contextMaintained = true and its history holds, in order, every user and
\* assistant turn of all the exchanges of the session.
C18_WebSessionContinuity ==
  Len(webSent) >= 2 =>
    /\ webResp.contextMaintained = "true"
    /\ SelectSeq(webResp.history, IsExchangeTurn) = Exchanges(webSent)

\* C19: on the Meta and on the Twilio path alike, a delivery is classified as a
\* duplicate only if a user turn among the last 10 stored turns has its message
\* id and also its text; the same id with another text is not a duplicate.
C19_DuplicateNeedsIdAndText ==
  [][\A d \in Deliveries :
       req[d].cause # "duplicate" /\ req'[d].cause = "duplicate"
         => IsDuplicateMeta(s3hist, req'[d].ev.text, req'[d].ev.id)]_vars

TwilioResolvers == {"adapter", "index"}

\* C21 as stated: for a Twilio form with a From field, the canonical key is
\* derived from From (its channel prefix stripped), also when a WaId field with
\* other digits is present.
C21_KeyFromSenderField ==
  \A r \in TwilioResolvers :
    idKeys[r].set /\ idFormA.From # Absent =>
      idKeys[r].A = WaPrefix \o normalizePhone(StripWhatsAppTag(idFormA.From))

\* C21 amended: for a Twilio form the canonical key is derived from WaId when it
\* is present, and from From (its channel prefix stripped) only when WaId is
\* absent.
C21_KeyFromAccountIdFirst ==
  \A r \in TwilioResolvers :
    idKeys[r].set =>
      idKeys[r].A =
        WaPrefix \o normalizePhone(IF idFormA.WaId # Absent THEN idFormA.WaId
                                   ELSE StripWhatsAppTag(idFormA.From))

\* both resolvers ran on a form whose From and WaId carry different digits
C21_FieldsDisagree ==
  /\ \A r \in TwilioResolvers : idKeys[r].set
  /\ idFormA.From # Absent /\ idFormA.WaId # Absent
  /\ normalizePhone(idFormA.From) # normalizePhone(idFormA.WaId)

\* C22: once a status request has observed COMPLETED or FAILED the poll loop has
\* ended, so no further status request is issued for the job; after FAILED the
\* loop has returned null.
C22_TerminalStatusEndsPolling ==
  pollStatus \in {"COMPLETED", "FAILED"} =>
    /\ pollPc = "done"
    /\ pollStatus = "FAILED" => pollResult = "null"

\* C23: the poll loops of the adapter and of index.mjs end without a transcript
\* only after a FAILED status or after maxAttempts status requests; a status
\* that is neither terminal nor IN_PROGRESS (QUEUED) does not end the polling.
C23_GivesUpOnlyOnFailedOrCeiling ==
  /\ pollImpl \in {"adapter", "index"}
  /\ pollPc = "done"
  /\ pollResult \in {"null", "undefined"}
  => pollStatus = "FAILED" \/ pollRequests >= maxAttempts

\* C24: for one audio file the start request is issued at most once; when it
\* throws it is not issued again, no status request follows, and transcribeAudio
\* returns null.
C24_SingleJobSubmission ==
  /\ [](jobStarts <= 1)
  /\ [][pollPc = "start" /\ pollPc' # "loop" =>
          pollPc' = "done" /\ pollResult' = "null" /\ pollRequests' = 0]_vars
  /\ [](pollRequests > 0 => jobStarts = 1)

\* the start request threw: transcribeAudio is over without a status request
C24_StartErrored ==
  pollPc = "done" /\ jobStarts = 1 /\ pollRequests = 0 /\ pollResult = "null"

\* C25: the requests of the fragments go out in list order (first, second, ...)
\* and never two at a time: a request is in flight only while the loop awaits it,
\* and the request of fragment i+1 starts only when the attempt of fragment i has
\* settled.
C25_OrderedDispatch ==
  /\ \A k \in 1..Len(sendStarted) : sendStarted[k] = k
  /\ Len(sendStarted) - Len(sendLog) = (IF sendPc = "awaiting" THEN 1 ELSE 0)

\* a later fragment is in flight after a failed attempt before it
C25_LaterFragmentInFlight ==
  /\ sendPc = "awaiting"
  /\ Len(sendStarted) >= 2
  /\ \E k \in 1..Len(sendLog) : sendLog[k] # "ok"

\* C26: a send loop that has sent all n fragments of a reply has waited exactly
\* n - 1 times: once between two consecutive fragments, not after the last one.
C26_DelaysBetweenFragments ==
  sendPc = "done" => sendDelays = sendTotal - 1

\* C27: every fragment of dividirRespuesta has at most 300 characters, except a
\* fragment that is one single sentence longer than 300; a fragment made of two
\* or more sentences joined by a space never exceeds 300.
C27_FragmentSizeBound ==
  splitImpl = "dividirRespuesta" =>
    \A k \in DOMAIN splitOut :
      TextLen(splitOut[k]) > FragmentLimit =>
        Len(SplitSentences(splitOut[k], 1, <<>>)) = 1

\* C28: dividirRespuesta never yields an empty fragment, for every reply text,
\* the empty text and a text of white space only included (the handler sends
\* every fragment it yields).
C28_NoEmptyFragment ==
  splitImpl = "dividirRespuesta" => \A k \in DOMAIN splitOut : splitOut[k] # <<>>

C30_TrimWindow ==
  [][trimCount' # trimCount =>
       /\ trimPassed'[Len(trimPassed')].role = "user"
       /\ SelectSeq(trimPassed', IsExchangeTurn) =
            Append(LastN(SelectSeq(trimLog, IsExchangeTurn), MAX_TURNS * 2),
                   trimPassed'[Len(trimPassed')])]_vars

\* C31: the store is written without a guard: a save that succeeds replaces the
\* stored log by the log the saving request loaded plus its own turns, whatever
\* was stored in between; so two concurrent requests of a user that both loaded
\* before either saved leave only the turns of the later writer in the store.
C31_LastWriterWins ==
  [][\A d \in Deliveries :
       req[d].pc = "invoked" /\ req'[d].saved => s3hist' = req[d].messages]_vars

\* two requests with different message ids were both answered and both saved,
\* and the stored log has the user turn of one of them only
C31_LostUpdate ==
  \E d1, d2 \in Deliveries :
    /\ req[d1].saved /\ req[d2].saved
    /\ req[d1].cause = "ok" /\ req[d2].cause = "ok"
    /\ req[d1].ev.kind = req[d2].ev.kind
    /\ req[d1].ev.id # req[d2].ev.id
    /\ \E i \in DOMAIN s3hist : s3hist[i].messageId = req[d2].ev.id
    /\ \A i \in DOMAIN s3hist : s3hist[i].messageId # req[d1].ev.id

\* C32: a request whose read of the stored log failed with an error does not
\* replace the stored log by a log that lacks the turns stored before: what it
\* saves begins with what was stored.
C32_FailedReadKeepsLog ==
  [][\A d \in Deliveries :
       req[d].loadFailed /\ req[d].pc = "invoked" /\ req'[d].saved
         => IsPrefix(s3hist, s3hist')]_vars

\* C33: when the call to the backend fails, the stored history of every user is
\* after the request what it was before it: the user turn of the request is not
\* left in the store without a reply, for a user with a session as for a new one.
C33_StoreUnchangedOnBackendFailure ==
  [][nRuns' # nRuns /\ run'.backendFailed => memory' = memory]_vars

\* C34: a request from which no sender can be recovered never reads or appends
\* to the session of an identified user, and every turn stored under a key
\* wa:<digits> comes from a request whose own payload carried those digits.
C34_UnidentifiedIsolated ==
  /\ legRun.status # "none" /\ legRun.sender = Absent => legRun.userId \notin LegacyUsers
  /\ \A u \in LegacyUsers : \A i \in DOMAIN legMemory[u] :
       WaPrefix \o legMemory[u][i].sender = u

\* C35: a message is routed to the transcription if and only if the content
\* type of at least one of its media descriptors contains "audio".
C35_AudioIffContainsAudio ==
  audRouted # Unset =>
    (audRouted = "transcription" <=>
       \E k \in DOMAIN audTypes : Includes(audTypes[k], <<"a", "u", "d", "i", "o">>))

\* C36: for a form-encoded body whose plain decoding is not one long key with an
\* empty or "=" value, the parsing returns exactly the plain decoding, bodies
\* with a single field included.
C36_PlainUnlessDoubleEncoded ==
  /\ detResult.status # "unset"
  /\ detContentType = "form"
  /\ ~LooksDoubleEncoded(detImpl, QsParse(detBody))
  => detResult.status = "mapping" /\ detResult.form = QsParse(detBody)

\* C37: the parsing returns a mapping for every body and content type, and an
\* empty one when the body looked encoded twice and every recovery failed.
C37_ParsingNonFatal ==
  detResult.status # "unset" =>
    /\ detResult.status = "mapping"
    /\ "base64" \in detResult.tried /\ detResult.failed = detResult.tried
         => detResult.form = {}

\* C38: the body of an HTTP response never carries the stack trace of an
\* exception.
C38_NoStackInResponse ==
  \A d \in Deliveries :
    req[d].pc = "done" => "stack" \notin ResponseBody(req[d].status, req[d].cause)

\* C39: in one request the duplicate check is decided before the user turn is
\* appended, the backend is called after that append, the assistant turn is
\* committed to the store after a successful reply of the backend, and a
\* fragment of the reply is dispatched after that commit.
C39_PipelineOrder ==
  LET precedes(s, a, b) ==
        \A j \in DOMAIN s : s[j] = b => \E i \in 1..(j - 1) : s[i] = a
      ordered(s) ==
        /\ precedes(s, "dedup", "append_user")
        /\ precedes(s, "append_user", "backend")
        /\ precedes(s, "backend_ok", "commit")
        /\ precedes(s, "commit", "dispatch")
  IN /\ ordered(run.steps)
     /\ \A d \in Deliveries : ordered(req[d].steps)

====
